------------------------------- MODULE StrSplit -------------------------------
(***************************************************************************)
(* fawkes::str_split / str_split_to_queue and str_join                     *)
(* (src/plugins/src/libs/utils/misc/string_split.h) as the loops they are: *)
(* both str_join overloads walk their list appending the delimiter (a     *)
(* character or a string) between items; str_split                        *)
(* calls std::getline(ss, item, delim) until it fails and keeps the        *)
(* non-empty items.  A run either splits an arbitrary string, or joins a   *)
(* list and splits the result.                                             *)
(***************************************************************************)
EXTENDS Naturals, Sequences, SequencesExt

CONSTANTS
  Chars,     \* the characters strings are made of
  Delim,     \* the delimiter (default '/')
  MaxLen,    \* longest string split directly
  Words,     \* the strings a joined list is made of
  MaxItems,  \* longest list joined
  Seps       \* the strings given to str_join(l, std::string delim)

ASSUME Delim \in Chars /\ MaxLen \in Nat /\ MaxItems \in Nat
ASSUME Words \subseteq Seq(Chars) /\ Seps \subseteq Seq(Chars)

VARIABLES
  phase,    \* "join" | "split" | "done"
  origin,   \* "string": split of an input string; "list": split of a join
  list,     \* the list given to str_join
  overload, \* which str_join: "char" or "string" delimiter
  sep,      \* the delimiter str_join puts between items
  rest,     \* the list items the join loop has not reached
  first,    \* str_join's `first`
  rv,       \* str_join's `rv`
  input,    \* the string given to str_split
  ss,       \* what the stringstream has not yet delivered
  elems     \* str_split's `elems`

vars == <<phase, origin, list, overload, sep, rest, first, rv, input, ss, elems>>

-----------------------------------------------------------------------------
(* std::getline(ss, item, delim): the characters up to the next delimiter, *)
(* which is consumed; the rest of the stream when there is none.          *)

DelimAt(s) == {i \in 1..Len(s) : s[i] = Delim}
Cut(s) == IF DelimAt(s) = {} THEN Len(s) + 1 ELSE Min(DelimAt(s))
Item(s) == SubSeq(s, 1, Cut(s) - 1)
After(s) == SubSeq(s, Cut(s) + 1, Len(s))

Init ==
  /\ first = TRUE /\ rv = <<>> /\ elems = <<>>
  /\ \/ /\ phase = "join" /\ origin = "list"
        /\ list \in BoundedSeq(Words, MaxItems) /\ rest = list
        /\ \/ overload = "char" /\ sep = <<Delim>>
           \/ overload = "string" /\ sep \in Seps
        /\ input = <<>> /\ ss = <<>>
     \/ /\ phase = "split" /\ origin = "string"
        /\ list = <<>> /\ rest = <<>>
        /\ overload = "char" /\ sep = <<Delim>>
        /\ input \in BoundedSeq(Chars, MaxLen) /\ ss = input

-----------------------------------------------------------------------------
\* Fault variant: `first = false` is never executed, so no delimiter is added.
JoinStepNoDelimiter ==
  /\ phase = "join" /\ overload = "char" /\ rest # <<>>
  /\ rv' = rv \o Head(rest)
  /\ rest' = Tail(rest)
  /\ UNCHANGED <<phase, origin, list, overload, sep, first, input, ss, elems>>

\* One iteration of the loop of str_join(l, char delim).
JoinStep ==
  /\ phase = "join" /\ overload = "char" /\ rest # <<>>
  /\ rv' = IF first THEN rv \o Head(rest) ELSE rv \o <<Delim>> \o Head(rest)
  /\ first' = FALSE
  /\ rest' = Tail(rest)
  /\ UNCHANGED <<phase, origin, list, overload, sep, input, ss, elems>>

\* One iteration of the loop of str_join(l, std::string delim).
JoinStepStr ==
  /\ phase = "join" /\ overload = "string" /\ rest # <<>>
  /\ rv' = IF first THEN rv \o Head(rest) ELSE rv \o sep \o Head(rest)
  /\ first' = FALSE
  /\ rest' = Tail(rest)
  /\ UNCHANGED <<phase, origin, list, overload, sep, input, ss, elems>>

\* str_join returns rv, which is then given to str_split.
JoinReturn ==
  /\ phase = "join" /\ rest = <<>>
  /\ phase' = "split" /\ input' = rv /\ ss' = rv
  /\ UNCHANGED <<origin, list, overload, sep, rest, first, rv, elems>>

\* Fault variant: the `item != ""` test is missing.
SplitStepKeepsEmpty ==
  /\ phase = "split" /\ ss # <<>>
  /\ elems' = Append(elems, Item(ss))
  /\ ss' = After(ss)
  /\ UNCHANGED <<phase, origin, list, overload, sep, rest, first, rv, input>>

\* One successful std::getline and the `item != ""` test.
SplitStep ==
  /\ phase = "split" /\ ss # <<>>
  /\ elems' = IF Item(ss) # <<>> THEN Append(elems, Item(ss)) ELSE elems
  /\ ss' = After(ss)
  /\ UNCHANGED <<phase, origin, list, overload, sep, rest, first, rv, input>>

\* std::getline fails on an exhausted stream; str_split returns elems.
SplitReturn ==
  /\ phase = "split" /\ ss = <<>>
  /\ phase' = "done"
  /\ UNCHANGED <<origin, list, overload, sep, rest, first, rv, input, ss, elems>>

Next == JoinStep \/ JoinStepStr \/ JoinReturn \/ SplitStep \/ SplitReturn

Spec == Init /\ [][Next]_vars

-----------------------------------------------------------------------------
(* Reference: the fields of s are its maximal runs of non-delimiters.     *)

FieldStarts(s) ==
  {i \in 1..Len(s) : s[i] # Delim /\ (i = 1 \/ s[i - 1] = Delim)}
FieldEnd(s, i) ==
  CHOOSE j \in i..Len(s) : /\ \A k \in i..j : s[k] # Delim
                           /\ j = Len(s) \/ s[j + 1] = Delim
Fields(s) ==
  LET st == SetToSortSeq(FieldStarts(s), <)
  IN  [k \in 1..Len(st) |-> SubSeq(s, st[k], FieldEnd(s, st[k]))]

NonEmpty(w) == w # <<>>

\* str_split returns exactly the fields of its input, in order: leading,
\* trailing and repeated delimiters give no empty strings and the last
\* field is kept although getline ends at the end of the stream.
SplitIsFields ==
  phase = "done" => elems = Fields(input)

\* Splitting a joined list gives back its non-empty items, as long as no
\* item contains the delimiter and str_join put a non-empty run of
\* delimiters between two neighbouring items (one delimiter character, or
\* a string made of delimiters only).
JoinSplitRoundTrip ==
  (/\ phase = "done" /\ origin = "list"
   /\ \A k \in 1..Len(list) : Delim \notin Range(list[k])
   /\ sep # <<>> /\ Range(sep) = {Delim})
    => elems = SelectSeq(list, NonEmpty)
=============================================================================
