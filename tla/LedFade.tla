------------------------------ MODULE LedFade ------------------------------
(***************************************************************************)
(* middleware/LEDS/_04_led_brightness_pwm: main fades an LED up to 100     *)
(* percent and back to 0, again and again.  The brightness is a byte that  *)
(* turns only where it is exactly 0 or 100.                                *)
(***************************************************************************)
EXTENDS Integers

CONSTANT FADE_STEP

\* Without this the byte runs past 100.
ASSUME FadeAssumption == FADE_STEP \in 1..100 /\ \E n \in 1..100 : n * FADE_STEP = 100

VARIABLES ledPc, brightness, direction

ledVars == <<ledPc, brightness, direction>>

LedInit == ledPc = "set" /\ brightness = 0 /\ direction = FADE_STEP

\* Whether main turns.  Variant: only at the top.
AtLimit_top(b) == b = 100
AtLimit(b)     == b = 0 \/ b = 100

\* led_set_brightness takes up to 100 percent; when it fails main returns.
main_led ==
  /\ ledPc = "set"
  /\ \/ /\ brightness <= 100
        /\ brightness' = (brightness + direction) % 256
        /\ direction' = IF AtLimit(brightness') THEN -direction ELSE direction
        /\ UNCHANGED ledPc
     \/ ledPc' = "end" /\ UNCHANGED <<brightness, direction>>

LedSpec == LedInit /\ [][main_led]_ledVars
-----------------------------------------------------------------------------
\* Type correctness.
LedTypeOK == ledPc \in {"set", "end"} /\ brightness \in 0..255 /\ direction \in {FADE_STEP, -FADE_STEP}

\* The fade never leaves 0 to 100 and never gets stuck at an end: the step lands exactly on
\* both, and at each of them the direction points back inside.
FadesBothWays ==
  /\ brightness \in 0..100
  /\ brightness = 0 => direction > 0
  /\ brightness = 100 => direction < 0
=============================================================================
