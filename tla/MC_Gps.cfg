\* Gps plugin with a world reset: 10 Hz throttle at 3 steps per interval; a
\* reset takes back up to 8 steps of simulation time.
CONSTANTS
  Interval = 3
  MaxBack = 8
  MaxResets = 1
SPECIFICATION Spec
PROPERTY SendThrottled
