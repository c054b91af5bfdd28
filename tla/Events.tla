------------------------------- MODULE Events -------------------------------
(***************************************************************************)
(* kernel/EVENTS: main posts events and sleeps; a thread of lower priority *)
(* waits for them.  The four samples differ in how main posts (set or      *)
(* post, at once or one after the other) and in how the thread waits (any  *)
(* or all, and who clears what it received).  One of them runs.            *)
(***************************************************************************)
EXTENDS Naturals

VARIABLES
  evProgram,
  evMainPc,
  my_event,       \* the events that are set
  event,          \* what k_event_wait gave the consumer last
  conPc,          \* the consumer: "call" before k_event_wait, "wait" in it, then "ready", "clear"
  unseen          \* events posted since the consumer received them last

evVars == <<evProgram, evMainPc, my_event, event, conPc, unseen>>

EvPrograms == {"_01", "_02", "_03", "_04"}
Wanted == {0} \cup (IF evProgram = "_01" THEN {} ELSE IF evProgram = "_02" THEN {2} ELSE {3})

EvInit ==
  /\ evProgram \in EvPrograms
  /\ evMainPc = "run" /\ my_event = {} /\ event = {} /\ conPc = "call" /\ unseen = {}

\* What a waiter gets of the events that are set: _04 waits for all it wants, the others for
\* any of them.
Matched(set) == IF evProgram = "_04" /\ ~(Wanted \subseteq set) THEN {} ELSE set \cap Wanted

\* k_event_wait_safe of _03 takes the events it returns away in the same step.
Remaining(set, got) == IF evProgram = "_03" THEN set \ got ELSE set

\* The events become set; a consumer that waits for them is made ready with those that match.
SetTo(set, posted) ==
  /\ unseen' = unseen \cup posted
  /\ IF conPc = "wait" /\ Matched(set) # {}
     THEN /\ event' = Matched(set) /\ conPc' = "ready"
          /\ my_event' = Remaining(set, Matched(set))
     ELSE /\ my_event' = set
          /\ UNCHANGED <<event, conPc>>

k_event_set(posted)  == SetTo(posted, posted)
k_event_post(posted) == SetTo(my_event \cup posted, posted)

\* main goes to sleep with its last post; it has the highest priority, so the consumer runs
\* only while main sleeps.
MainAsleep == evMainPc \in {"sleep", "nap"}

WakeEv(from, to) ==
  /\ evMainPc = from
  /\ evMainPc' = to
  /\ UNCHANGED <<evProgram, my_event, event, conPc, unseen>>

main_ev01 ==
  /\ evProgram = "_01"
  /\ \/ evMainPc = "run" /\ k_event_set({0}) /\ evMainPc' = "sleep" /\ UNCHANGED evProgram
     \/ WakeEv("sleep", "run")

main_ev02 ==
  /\ evProgram = "_02"
  /\ \/ evMainPc = "run" /\ k_event_set({0, 2}) /\ evMainPc' = "sleep" /\ UNCHANGED evProgram
     \/ WakeEv("sleep", "run")

main_ev03 ==
  /\ evProgram = "_03"
  /\ \/ evMainPc = "run" /\ k_event_post({0}) /\ evMainPc' = "second" /\ UNCHANGED evProgram
     \/ evMainPc = "second" /\ k_event_post({3}) /\ evMainPc' = "sleep" /\ UNCHANGED evProgram
     \/ WakeEv("sleep", "run")

main_ev04 ==
  /\ evProgram = "_04"
  /\ \/ evMainPc = "run" /\ k_event_post({0}) /\ evMainPc' = "nap" /\ UNCHANGED evProgram
     \/ evMainPc = "second" /\ k_event_post({3}) /\ evMainPc' = "sleep" /\ UNCHANGED evProgram
     \/ WakeEv("nap", "second") \/ WakeEv("sleep", "run")
-----------------------------------------------------------------------------
(* The consumer *)

\* The third argument of k_event_wait: _01 and _02 clear everything before they wait.
ResetFirst == evProgram \in {"_01", "_02"}

k_event_wait ==
  /\ conPc = "call"
  /\ LET set == IF ResetFirst THEN {} ELSE my_event IN
     IF Matched(set) = {} THEN conPc' = "wait" /\ my_event' = set /\ UNCHANGED event
     ELSE conPc' = "ready" /\ event' = Matched(set) /\ my_event' = Remaining(set, event')
  /\ UNCHANGED <<evProgram, evMainPc, unseen>>

\* The events are printed one by one.
PrintEvents ==
  /\ conPc = "ready"
  /\ unseen' = unseen \ event
  /\ conPc' = "clear"
  /\ UNCHANGED <<evProgram, evMainPc, my_event, event>>

\* k_event_clear of _03 and _04; the others cleared before.  Variant: not cleared.
k_event_clear_not(set) == my_event' = my_event
k_event_clear(set)     == my_event' = my_event \ set

ClearEvents ==
  /\ conPc = "clear"
  /\ IF ResetFirst THEN UNCHANGED my_event ELSE k_event_clear(event)
  /\ conPc' = "call"
  /\ UNCHANGED <<evProgram, evMainPc, event, unseen>>

Consumer == MainAsleep /\ (k_event_wait \/ PrintEvents \/ ClearEvents)
consumer_thread_ev01 == evProgram = "_01" /\ Consumer
consumer_thread_ev02 == evProgram = "_02" /\ Consumer
consumer_thread_ev03 == evProgram = "_03" /\ Consumer
consumer_thread_ev04 == evProgram = "_04" /\ Consumer

EvMain     == main_ev01 \/ main_ev02 \/ main_ev03 \/ main_ev04
EvConsumer == consumer_thread_ev01 \/ consumer_thread_ev02 \/ consumer_thread_ev03 \/ consumer_thread_ev04
EvNext     == EvMain \/ EvConsumer

\* main's sleeps end, and each is long enough for the consumer to get on.
EvFairness == WF_evVars(EvMain) /\ SF_evVars(EvConsumer)
EvSpec == EvInit /\ [][EvNext]_evVars /\ EvFairness
-----------------------------------------------------------------------------
\* Type correctness.
EvTypeOK ==
  /\ evProgram \in EvPrograms /\ evMainPc \in {"run", "second", "nap", "sleep"}
  /\ my_event \subseteq Wanted /\ event \subseteq Wanted /\ unseen \subseteq Wanted
  /\ conPc \in {"call", "wait", "ready", "clear"}

\* What the consumer is given has been posted since it last received it: no post is received
\* twice, in whichever of the four ways the events are cleared.
EventsFresh == conPc = "ready" => event # {} /\ event \subseteq unseen

\* The consumer goes on receiving, although posts that come while it prints are cleared.
EventsReceived == []<>(conPc = "clear")
=============================================================================
