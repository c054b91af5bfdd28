---------------------------- MODULE KernelProofs ----------------------------
(***************************************************************************)
(* Proofs about Events, StateMachine, Timers and LedFade: no post is       *)
(* received twice, the machine is in the state its inputs lead to, every   *)
(* expiry is printed once, and the LED fades between 0 and 100.  Then the  *)
(* samples together, as MCKernel has them.                                 *)
(***************************************************************************)
EXTENDS MCKernel, NodeQueuesProofs, DeliveryProofs, TLAPS

(* Events *)

\* Where events are not cleared before the wait, those that are set and not yet received are
\* new; between the print and the clearing, those just received are still set.
EventsKnown ==
  /\ conPc = "ready" => event # {} /\ event \subseteq unseen
  /\ ~ResetFirst => my_event \subseteq unseen \cup (IF conPc = "clear" THEN event ELSE {})

EvInv == EvTypeOK /\ EventsKnown

\* The invariant holds at the start: no event is set.
LEMMA EvInitInv == EvInit => EvInv
  BY DEF EvInit, EvInv, EvTypeOK, EventsKnown, EvPrograms

\* What a waiter is given is wanted and among the events that are set.
LEMMA MatchedIsSet == \A set : Matched(set) \subseteq set /\ Matched(set) \subseteq Wanted
  BY DEF Matched

\* A post that wakes the consumer gives it events that are new.
LEMMA SetKeeps ==
  ASSUME EvInv, NEW set, NEW posted, SetTo(set, posted), posted \subseteq set,
         posted \subseteq Wanted, set \subseteq Wanted,
         set \subseteq posted \/ (~ResetFirst /\ set = my_event \cup posted),
         evMainPc' \in {"run", "second", "nap", "sleep"}, UNCHANGED evProgram
  PROVE  EvInv'
<1>1. Wanted' = Wanted /\ ResetFirst' = ResetFirst /\ unseen' = unseen \cup posted
  BY DEF Wanted, ResetFirst, SetTo
<1>2. CASE conPc = "wait" /\ Matched(set) # {}
  <2>1. event' = Matched(set) /\ conPc' = "ready" /\ my_event' \subseteq set
    BY <1>2 DEF SetTo, Remaining
  <2>2. set \subseteq unseen'
    BY <1>1, <1>2 DEF EvInv, EventsKnown
  <2> QED
    BY <1>1, <1>2, <2>1, <2>2, MatchedIsSet DEF EvInv, EvTypeOK, EventsKnown
<1>3. CASE ~(conPc = "wait" /\ Matched(set) # {})
  <2>1. my_event' = set /\ UNCHANGED <<event, conPc>>
    BY <1>3 DEF SetTo
  <2> QED
    BY <1>1, <2>1 DEF EvInv, EvTypeOK, EventsKnown
<1> QED
  BY <1>2, <1>3

\* main.
LEMMA EvMainKeeps == EvInv /\ EvMain => EvInv'
<1> SUFFICES ASSUME EvInv, EvMain PROVE EvInv'
  OBVIOUS
<1>1. UNCHANGED evProgram
  BY DEF EvMain, main_ev01, main_ev02, main_ev03, main_ev04, WakeEv
<1>2. CASE UNCHANGED <<my_event, event, conPc, unseen>> /\ evMainPc' \in {"run", "second"}
  BY <1>1, <1>2 DEF EvInv, EvTypeOK, EventsKnown, Wanted, ResetFirst
<1>3. CASE \E posted \in {{0}, {0, 2}} : k_event_set(posted) /\ posted \subseteq Wanted
                                         /\ evMainPc' = "sleep"
  BY <1>1, <1>3, SetKeeps DEF k_event_set
<1>4. CASE /\ evProgram \in {"_03", "_04"} /\ evMainPc' \in {"second", "nap", "sleep"}
           /\ \E posted \in {{0}, {3}} : k_event_post(posted)
  <2>1. Wanted = {0, 3} /\ ~ResetFirst /\ my_event \subseteq Wanted
    BY <1>4 DEF Wanted, ResetFirst, EvInv, EvTypeOK
  <2>2. PICK posted \in {{0}, {3}} : SetTo(my_event \cup posted, posted)
    BY <1>4 DEF k_event_post
  <2>3. /\ posted \subseteq Wanted /\ my_event \cup posted \subseteq Wanted
        /\ posted \subseteq my_event \cup posted
        /\ evMainPc' \in {"run", "second", "nap", "sleep"}
    BY <1>4, <2>1
  <2> QED
    BY Zenon, <1>1, <2>1, <2>2, <2>3, SetKeeps
<1>5. CASE main_ev01 \/ main_ev02
  <2>1. CASE WakeEv("sleep", "run")
    BY <1>2, <2>1 DEF WakeEv
  <2>2. CASE k_event_set({0}) /\ evMainPc' = "sleep"
    BY <1>3, <2>2 DEF Wanted
  <2>3. CASE k_event_set({0, 2}) /\ evMainPc' = "sleep" /\ evProgram = "_02"
    BY <1>3, <2>3 DEF Wanted
  <2> QED
    BY Zenon, <1>5, <2>1, <2>2, <2>3 DEF main_ev01, main_ev02
<1>6. CASE main_ev03 \/ main_ev04
  <2>1. CASE WakeEv("sleep", "run") \/ WakeEv("nap", "second")
    BY <1>2, <2>1 DEF WakeEv
  <2>2. CASE ~(WakeEv("sleep", "run") \/ WakeEv("nap", "second"))
    BY <1>4, <1>6, <2>2 DEF main_ev03, main_ev04
  <2> QED
    BY <2>1, <2>2
<1> QED
  BY <1>5, <1>6 DEF EvMain

\* The consumer.
LEMMA ConsumerKeeps == EvInv /\ Consumer /\ UNCHANGED evProgram => EvInv'
<1> SUFFICES ASSUME EvInv, Consumer, UNCHANGED evProgram PROVE EvInv'
  OBVIOUS
<1>1. Wanted' = Wanted /\ ResetFirst' = ResetFirst
  BY DEF Wanted, ResetFirst
<1>2. CASE k_event_wait
  <2> DEFINE set == IF ResetFirst THEN {} ELSE my_event
  <2>1. /\ \/ conPc' = "wait" /\ my_event' = set /\ event' = event
           \/ conPc' = "ready" /\ event' = Matched(set) /\ Matched(set) # {} /\ my_event' \subseteq set
        /\ UNCHANGED <<evMainPc, unseen>> /\ conPc = "call"
    BY <1>2 DEF k_event_wait, Remaining
  <2>2. Matched({}) = {} /\ Matched(set) \subseteq set /\ set \subseteq my_event
    BY MatchedIsSet
  <2> QED
    BY <1>1, <2>1, <2>2 DEF EvInv, EvTypeOK, EventsKnown
<1>3. CASE PrintEvents
  BY <1>1, <1>3 DEF PrintEvents, EvInv, EvTypeOK, EventsKnown
<1>4. CASE ClearEvents
  BY <1>1, <1>4 DEF ClearEvents, k_event_clear, EvInv, EvTypeOK, EventsKnown
<1> QED
  BY <1>2, <1>3, <1>4 DEF Consumer

\* The invariant is kept.
LEMMA EvNextInv == EvInv /\ [EvNext]_evVars => EvInv'
<1> SUFFICES ASSUME EvInv, [EvNext]_evVars PROVE EvInv'
  OBVIOUS
<1>1. CASE EvMain
  BY <1>1, EvMainKeeps
<1>2. CASE EvConsumer
  <2>1. Consumer /\ UNCHANGED evProgram
    BY <1>2 DEF EvConsumer, consumer_thread_ev01, consumer_thread_ev02, consumer_thread_ev03,
                consumer_thread_ev04, Consumer, k_event_wait, PrintEvents, ClearEvents
  <2> QED
    BY <2>1, ConsumerKeeps
<1>3. CASE UNCHANGED evVars
  BY <1>3 DEF evVars, EvInv, EvTypeOK, EventsKnown, Wanted, ResetFirst
<1> QED
  BY <1>1, <1>2, <1>3 DEF EvNext

\* The invariant says that what the consumer is given is new.
LEMMA EvFresh == EvInv => EvTypeOK /\ EventsFresh
  BY DEF EvInv, EventsKnown, EventsFresh

\* What the consumer is given has been posted since it last received it: no post is received
\* twice, in whichever of the four ways the events are cleared.
THEOREM NoPostTwice == EvSpec => []EventsFresh
  BY EvInitInv, EvNextInv, EvFresh, PTL DEF EvSpec
\* A consumer waits only for what is not set.
EventsAwaited == conPc = "wait" => Matched(my_event) = {}

\* It looks before it waits, and the post that sets the events makes it ready.
LEMMA AwaitedNext == EventsAwaited /\ [EvNext]_evVars => EventsAwaited'
<1> SUFFICES ASSUME EventsAwaited, [EvNext]_evVars PROVE EventsAwaited'
  OBVIOUS
<1>1. evProgram' = evProgram
  BY DEF EvNext, EvMain, EvConsumer, main_ev01, main_ev02, main_ev03, main_ev04, WakeEv, consumer_thread_ev01,
         consumer_thread_ev02, consumer_thread_ev03, consumer_thread_ev04, Consumer, k_event_wait,
         PrintEvents, ClearEvents, evVars
<1>2. CASE \E set, posted : SetTo(set, posted)
  <2>1. PICK set, posted : SetTo(set, posted)
    BY <1>2
  <2>2. CASE conPc = "wait" /\ Matched(set) # {}
    BY <2>1, <2>2 DEF SetTo, EventsAwaited
  <2>3. CASE ~(conPc = "wait" /\ Matched(set) # {})
    <3>1. my_event' = set /\ conPc' = conPc
      BY <2>1, <2>3 DEF SetTo
    <3> QED
      BY <1>1, <2>3, <3>1 DEF EventsAwaited, Matched, Wanted
  <2> QED
    BY <2>2, <2>3
<1>3. CASE k_event_wait
  <2>1. conPc' = "wait" => Matched(my_event') = {}
    BY <1>3 DEF k_event_wait
  <2> QED
    BY <1>1, <2>1 DEF EventsAwaited, Matched, Wanted
<1>4. CASE conPc' \in {"clear", "call"} \/ UNCHANGED <<conPc, my_event>>
  BY <1>1, <1>4 DEF EventsAwaited, Matched, Wanted
<1>5. EvMain => (\E set, posted : SetTo(set, posted)) \/ UNCHANGED <<conPc, my_event>>
  BY DEF EvMain, main_ev01, main_ev02, main_ev03, main_ev04, WakeEv, k_event_set, k_event_post
<1>6. EvConsumer => k_event_wait \/ conPc' \in {"clear", "call"}
  BY DEF EvConsumer, consumer_thread_ev01, consumer_thread_ev02, consumer_thread_ev03,
         consumer_thread_ev04, Consumer, PrintEvents, ClearEvents
<1> QED
  BY <1>2, <1>3, <1>4, <1>5, <1>6 DEF EvNext, evVars

\* What KeepsReceiving rests on for the event samples: no consumer sleeps over an event that is
\* set, whoever clears it and however main's posts fall between the consumer's steps.
THEOREM NoEventOverlooked == EvSpec => []EventsAwaited
<1>1. EvInit => EventsAwaited
  BY DEF EvInit, EventsAwaited
<1> QED
  BY <1>1, AwaitedNext, PTL DEF EvSpec
-----------------------------------------------------------------------------
(* StateMachine *)

\* The state that d changes lead to.
At(d) == IF smProgram = "_04" THEN <<"state1", "state2", "state3">>[(d % 3) + 1]
                              ELSE <<"state1", "state2">>[(d % 2) + 1]

\* The state that follows.
Following(s) == IF s = "state1" THEN "state2"
                ELSE IF smProgram = "_04" /\ s = "state2" THEN "state3" ELSE "state1"

\* While main runs the machine, it is one change behind, unless _06 received a 0.
SmInv ==
  /\ smProgram \in SmPrograms /\ due \in 0..5
  /\ current \in IF smProgram = "_04" THEN {"state1", "state2", "state3"} ELSE {"state1", "state2"}
  /\ entered = Chain(current)
  /\ At(due) = IF smPc = "run" /\ ~(smProgram = "_06" /\ sm_data # 1) THEN Following(current) ELSE current
  /\ smProgram = "_03" => sm_event = IF current = "state1" THEN 0 ELSE 1

\* One more change leads to the state that follows.
LEMMA AtFollows ==
  ASSUME smProgram \in SmPrograms, due \in 0..5, DueAgain, UNCHANGED smProgram
  PROVE  due' \in 0..5 /\ At(due)' = Following(At(due))
<1>1. due \in {0, 1, 2, 3, 4, 5}
  OBVIOUS
<1> QED
  BY <1>1 DEF DueAgain, At, Following, SmPrograms

\* Entry and exit actions leave exactly the new state and its parents entered.
LEMMA SetStateKeeps ==
  ASSUME NEW s, entered = Chain(current), smf_set_state(s), UNCHANGED smProgram
  PROVE  current' = s /\ entered' = Chain(s)'
  BY DEF smf_set_state, Chain

\* main.
LEMMA SmMainKeeps == SmInv /\ SmMain => SmInv'
<1> SUFFICES ASSUME SmInv, SmMain PROVE SmInv'
  OBVIOUS
<1>1. CASE SleepBetween /\ smProgram \in {"_01", "_02", "_03", "_04"}
  <2>1. At(due)' = Following(At(due)) /\ due' \in 0..5 /\ UNCHANGED <<smProgram, current, entered, sm_event>>
        /\ smPc = "call" /\ smPc' = "run"
    BY <1>1, AtFollows DEF SleepBetween, SmInv
  <2> QED
    BY <1>1, <2>1 DEF SmInv, Following, Chain
<1>2. CASE smProgram = "_05" /\ WaitEvent
  <2>1. CASE smPc = "call"
    BY <1>2, <2>1 DEF WaitEvent, SmInv, At, Chain
  <2>2. CASE smPc = "wait"
    <3>1. At(due)' = Following(At(due)) /\ due' \in 0..5 /\ UNCHANGED <<smProgram, current, entered>>
          /\ smPc' = "run"
      BY <1>2, <2>2, AtFollows DEF WaitEvent, SmInv
    <3> QED
      BY <1>2, <2>2, <3>1 DEF SmInv, Following, Chain
  <2> QED
    BY <1>2, <2>1, <2>2 DEF WaitEvent
<1>3. CASE smProgram = "_06" /\ WaitMessage
  <2>1. UNCHANGED <<smProgram, current, entered>> /\ smPc = "call" /\ smPc' = "run"
    BY <1>3 DEF WaitMessage
  <2>2. CASE sm_data' = 1
    <3>1. At(due)' = Following(At(due)) /\ due' \in 0..5
      BY <1>3, <2>1, <2>2, AtFollows DEF WaitMessage, SmInv
    <3> QED
      BY <1>3, <2>1, <2>2, <3>1 DEF SmInv, Following, Chain
  <2>3. CASE sm_data' # 1
    BY <1>3, <2>1, <2>3 DEF WaitMessage, SmInv, At, Chain
  <2> QED
    BY <2>2, <2>3
<1>4. CASE \E from \in States, to \in States :
             /\ Move(from, to) /\ to = Following(from) /\ smPc = "run" /\ smPc' = "call"
             /\ UNCHANGED <<smProgram, due, sm_data>>
             /\ smProgram = "_03" => sm_event' = 1 - sm_event
             /\ ~(smProgram = "_06" /\ sm_data # 1)
  <2>1. current' = Following(current) /\ entered' = Chain(current') /\ At(due)' = At(due)
    BY <1>4, SetStateKeeps DEF Move, SmInv, At, Chain
  <2> QED
    BY <1>4, <2>1 DEF SmInv, Following, Chain
<1>5. CASE /\ smProgram = "_06" /\ sm_data # 1 /\ smPc' = "call"
           /\ UNCHANGED <<smProgram, current, entered, due, sm_data>>
  BY <1>5 DEF SmInv, At, Chain
<1> USE DEF States, Following, smf_run_state
<1>6. CASE main_sm01 \/ main_sm02 \/ main_sm05
  BY <1>1, <1>2, <1>4, <1>6 DEF main_sm01, main_sm02, main_sm05, runs_01, runs_02, runs_05, Move
<1>7. CASE main_sm03
  BY <1>1, <1>4, <1>7 DEF main_sm03, runs_03, Move, SmInv
<1>8. CASE main_sm04
  BY <1>1, <1>4, <1>8 DEF main_sm04, runs_04, Move
<1>9. CASE main_sm06
  BY <1>3, <1>4, <1>5, <1>9 DEF main_sm06, runs_06, Move, MovesOn
<1> QED
  BY <1>6, <1>7, <1>8, <1>9 DEF SmMain

\* The invariant holds at the start and is kept.
LEMMA SmInvHolds ==
  /\ SmInit => SmInv
  /\ SmInv /\ [SmNext]_smVars => SmInv'
<1>1. SmInit => SmInv
  BY DEF SmInit, SmInv, At, Chain, SmPrograms
<1>2. ASSUME SmInv, [SmNext]_smVars PROVE SmInv'
  <2>1. CASE SmMain
    BY <1>2, <2>1, SmMainKeeps
  <2>2. CASE SmTimer
    BY <1>2, <2>2 DEF SmTimer, expiry_callback_05, expiry_callback_06, SmInv, At, Following, Chain
  <2>3. CASE UNCHANGED smVars
    BY <1>2, <2>3 DEF smVars, SmInv, At, Following, Chain
  <2> QED
    BY <1>2, <2>1, <2>2, <2>3 DEF SmNext
<1> QED
  BY <1>1, <1>2

\* The invariant says where the machine is between two runs.
LEMMA SmFollows == SmInv => StateFollows
  BY DEF SmInv, StateFollows, At, Chain

\* Between two runs the machine is in the state that its inputs lead to, and the states it has
\* entered and not left are that state and its parents.
THEOREM MachineFollows == SmSpec => []StateFollows
  BY SmInvHolds, SmFollows, PTL DEF SmSpec

\* What the invariant leaves open of the types: the point of main, the event and the queue.
SmRest ==
  /\ smPc \in {"call", "wait", "run"} /\ sm_event \in 0..1 /\ sm_data \in 0..1
  /\ sm_msgq \in Seq(0..1) /\ Len(sm_msgq) <= MachineDepth

\* It holds at the start and is kept.
LEMMA SmRestHolds ==
  /\ SmInit => SmRest
  /\ SmRest /\ [SmNext]_smVars => SmRest'
<1>1. ASSUME SmInit PROVE SmRest
  <2>1. sm_msgq \in Seq(0..1) /\ Len(sm_msgq) <= MachineDepth
    BY <1>1, MachineDepthAssumption DEF SmInit
  <2> QED
    BY <1>1, <2>1 DEF SmInit, SmRest
<1>2. ASSUME SmRest, [SmNext]_smVars PROVE SmRest'
  <2>1. CASE /\ smPc' \in {smPc, "call", "wait", "run"} /\ sm_event' \in {sm_event, 0, 1, 1 - sm_event}
             /\ UNCHANGED <<sm_msgq, sm_data>>
    BY <1>2, <2>1 DEF SmRest
  <2>2. CASE WaitMessage
    <3>1. sm_msgq \in Seq(0..1) /\ sm_msgq # <<>>
      BY <1>2, <2>2 DEF WaitMessage, SmRest
    <3>2. /\ Head(sm_msgq) \in 0..1 /\ Tail(sm_msgq) \in Seq(0..1)
          /\ Len(Tail(sm_msgq)) = Len(sm_msgq) - 1 /\ Len(sm_msgq) \in Nat
      BY <3>1, HeadTailProperties, LenProperties
    <3>3. sm_msgq' \in Seq(0..1) /\ Len(sm_msgq') <= MachineDepth
      BY <1>2, <2>2, <3>2, MachineDepthAssumption DEF WaitMessage, SmRest
    <3> QED
      BY <1>2, <2>2, <3>2, <3>3 DEF WaitMessage, SmRest
  <2>3. CASE expiry_callback_06
    <3>1. /\ Append(sm_msgq, sm_event) \in Seq(0..1)
          /\ Len(Append(sm_msgq, sm_event)) = Len(sm_msgq) + 1 /\ Len(sm_msgq) \in Nat
      BY <1>2, AppendProperties, LenProperties DEF SmRest
    <3>2. sm_msgq' = IF Len(sm_msgq) < MachineDepth THEN Append(sm_msgq, sm_event) ELSE sm_msgq
      BY <2>3 DEF expiry_callback_06
    <3>3. sm_msgq' \in Seq(0..1) /\ Len(sm_msgq') <= MachineDepth
      BY <1>2, <3>1, <3>2, MachineDepthAssumption DEF SmRest
    <3> QED
      BY <1>2, <2>3, <3>3 DEF expiry_callback_06, SmRest
  <2> QED
    BY <1>2, <2>1, <2>2, <2>3
    DEF SmNext, SmMain, SmTimer, smVars, main_sm01, main_sm02, main_sm03, main_sm04, main_sm05,
        main_sm06, SleepBetween, WaitEvent, smf_run_state, runs_01, runs_02, runs_03, runs_04, runs_05,
        runs_06, expiry_callback_05
<1> QED
  BY <1>1, <1>2

\* Type correctness follows from both.
LEMMA SmTypes == SmInv /\ SmRest => SmTypeOK
  BY DEF SmInv, SmRest, SmTypeOK, States, Chain
-----------------------------------------------------------------------------
(* Timers *)

\* Which timers run at which point of main, and how main and the callbacks keep up with the
\* expiries.
TiControl ==
  /\ running \in {{}, {1}, {1, 2}}
  /\ tiPc \in {"poll", "restart"} => tiProgram = "_03"
  /\ tiPc = "done" => tiProgram # "_03"
  /\ tiPc = "second" => tiProgram \in TwoTimers /\ running = {1} /\ stopped = 0
  /\ tiPc = "first" => running = {} /\ stopped = 0 /\ count[1] = 0
  /\ tiPc = "restart" => running = {}
  /\ 2 \in running => tiProgram \in TwoTimers /\ tiPc = "done" /\ stopped = 0
  /\ tiProgram = "_02" => count[1] <= 5
  /\ tiProgram = "_06" /\ tiPc = "done" => running \in {{}, {1, 2}}

TiInv == TiTypeOK /\ TiControl /\ ExpiriesCounted

\* A counter goes up by one or round to 0, and the other one stays.
LEMMA CountedBy ==
  ASSUME NEW f \in [1..2 -> 0..(Wrap - 1)], NEW t \in 1..2
  PROVE  /\ Counted(f, t) \in [1..2 -> 0..(Wrap - 1)]
         /\ Counted(f, t)[t] = IF f[t] = 5 THEN 0 ELSE f[t] + 1
         /\ \A s \in 1..2 : s # t => Counted(f, t)[s] = f[s]
<1>1. \A n \in 0..5 : (n + 1) % 6 = IF n = 5 THEN 0 ELSE n + 1
  OBVIOUS
<1> QED
  BY <1>1 DEF Counted, Wrap

\* main.
LEMMA TiMainKeeps == TiInv /\ TiMain => TiInv'
<1> SUFFICES ASSUME TiInv, TiMain PROVE TiInv'
  OBVIOUS
<1> USE DEF TiInv, TiTypeOK, TiControl, ExpiriesCounted, TwoTimers, TiPrograms, Wrap
<1>1. CASE StartTimer("first", 1, "done") /\ tiProgram \in {"_01", "_02", "_05", "_07"}
  <2>1. tiPc = "first" /\ tiPc' = "done" /\ UNCHANGED <<tiProgram, expiries, count, stopped>>
    BY <1>1 DEF StartTimer
  <2>2. running' = {1}
    BY <1>1, <2>1 DEF StartTimer, k_timer_start
  <2> QED
    BY <1>1, <2>1, <2>2
<1>2. CASE StartTimer("first", 1, "second") /\ tiProgram \in TwoTimers
  <2>1. tiPc = "first" /\ tiPc' = "second" /\ UNCHANGED <<tiProgram, expiries, count, stopped>>
    BY <1>2 DEF StartTimer
  <2>2. running' = {1}
    BY <1>2, <2>1 DEF StartTimer, k_timer_start
  <2> QED
    BY <1>2, <2>1, <2>2
<1>4. CASE StartTimer("second", 2, "done") /\ tiProgram \in TwoTimers
  <2>1. tiPc = "second" /\ tiPc' = "done" /\ UNCHANGED <<tiProgram, expiries, count, stopped>>
    BY <1>4 DEF StartTimer
  <2>2. running' = {1, 2}
    BY <1>4, <2>1 DEF StartTimer, k_timer_start
  <2> QED
    BY <1>4, <2>1, <2>2
<1>3. CASE main_ti03
  <2>1. CASE StartTimer("first", 1, "poll") \/ RestartTimer
    <3>1. running = {} /\ tiPc' = "poll" /\ UNCHANGED <<tiProgram, expiries, count, stopped>>
      BY <2>1 DEF RestartTimer, StartTimer
    <3>2. running' = {1}
      BY <2>1, <3>1 DEF RestartTimer, StartTimer, k_timer_start
    <3>3. expiries = count
      BY <2>1 DEF RestartTimer, StartTimer
    <3> QED
      BY <1>3, <3>1, <3>2, <3>3 DEF main_ti03
  <2>2. CASE PollTimer
    <3>1. running = {} /\ expiries = Counted(count, 1)
      BY <1>3, <2>2 DEF main_ti03, PollTimer
    <3> QED
      BY <1>3, <2>2, <3>1, CountedBy DEF main_ti03, PollTimer
  <2> QED
    BY <1>3, <2>1, <2>2 DEF main_ti03
<1> QED
  BY <1>1, <1>2, <1>3, <1>4 DEF TiMain, main_ti01, main_ti02, main_ti04, main_ti05, main_ti06, main_ti07

\* The clock interrupt.
LEMMA TiTimerKeeps == TiInv /\ (TiTimer1 \/ TiTimer2) => TiInv'
<1> SUFFICES ASSUME TiInv, TiTimer1 \/ TiTimer2 PROVE TiInv'
  OBVIOUS
<1> USE DEF TiInv, TiTypeOK, TiControl, ExpiriesCounted, TwoTimers, TiPrograms, Wrap, Periodic
<1>1. ASSUME NEW t \in 1..2, Expires(t, Periodic), Prints(t), tiProgram \notin {"_02", "_03"}
      PROVE  TiInv'
  <2>1. /\ expiries' = count' /\ count' = Counted(count, t)
        /\ UNCHANGED <<tiProgram, tiPc, running, stopped>> /\ t \in running
    BY <1>1 DEF Expires, Prints
  <2>2. count' \in [1..2 -> 0..(Wrap - 1)]
    BY <2>1, CountedBy
  <2> QED
    BY <1>1, <2>1, <2>2
<1>2. CASE expiry_callback_ti02
  <2>1. /\ tiProgram = "_02" /\ expiries' = count' /\ count' = Counted(count, 1)
        /\ UNCHANGED <<tiProgram, tiPc, stopped>> /\ running = {1} /\ tiPc = "done"
    BY <1>2 DEF expiry_callback_ti02, Expires, Prints
  <2>6. count[1] < 5
    BY <2>1
  <2>2. count[1] < 5 /\ count' \in [1..2 -> 0..(Wrap - 1)] /\ count'[1] = count[1] + 1
    BY <2>1, <2>6, CountedBy
  <2>3. running' = IF count[1] + 1 >= 5 THEN {} ELSE {1}
    BY <1>2, <2>1 DEF expiry_callback_ti02, Expires, OneShot
  <2>4. CASE count[1] + 1 >= 5
    BY <2>1, <2>2, <2>3, <2>4
  <2>5. CASE ~(count[1] + 1 >= 5)
    BY <2>1, <2>2, <2>3, <2>5
  <2> QED
    BY <2>4, <2>5
<1>3. CASE Expires_ti03
  <2>1. /\ tiProgram = "_03" /\ expiries' = Counted(expiries, 1) /\ 1 \in running
        /\ UNCHANGED <<tiProgram, tiPc, count, stopped>>
    BY <1>3 DEF Expires_ti03, Expires
  <2>2. tiPc = "poll" /\ running' = {} /\ expiries = count
    BY <1>3, <2>1 DEF Expires_ti03, Expires, OneShot
  <2>3. expiries' \in [1..2 -> 0..(Wrap - 1)]
    BY <2>1, CountedBy
  <2> QED
    BY <2>1, <2>2, <2>3
<1>4. CASE expiry_callback_ti05
  <2>1. /\ tiProgram = "_05" /\ expiries' = count' /\ count' = Counted(count, 1)
        /\ UNCHANGED <<tiProgram, tiPc, stopped>> /\ running = {1} /\ tiPc = "done"
    BY <1>4 DEF expiry_callback_ti05, Expires, Prints
  <2>2. running' = {}
    BY <1>4, <2>1 DEF expiry_callback_ti05, Expires, OneShot
  <2>3. count' \in [1..2 -> 0..(Wrap - 1)]
    BY <2>1, CountedBy
  <2> QED
    BY <2>1, <2>2, <2>3
<1>5. CASE timer2_callback
  <2>1. /\ tiProgram = "_06" /\ 2 \in running /\ running = {1, 2} /\ tiPc = "done" /\ stopped = 0
        /\ expiries' = Counted(expiries, 2) /\ count' = Counted(count, 2)
        /\ UNCHANGED <<tiProgram, tiPc>>
    BY <1>5 DEF timer2_callback, StopsOther, Expires
  <2>2. running' = {} /\ stopped' = 1
    BY <1>5, <2>1 DEF timer2_callback, StopsOther, Expires, OneShot
  <2>3. expiries' \in [1..2 -> 0..(Wrap - 1)] /\ count' \in [1..2 -> 0..(Wrap - 1)]
    BY <2>1, CountedBy
  <2> QED
    BY <2>1, <2>2, <2>3
<1> QED
  BY <1>1, <1>2, <1>3, <1>4, <1>5 DEF TiTimer1, TiTimer2, expiry_callback_ti01,
     expiry_callback_ti04, timer1_callback, expiry_callback_ti07

\* The invariant holds at the start and is kept.
LEMMA TiInvHolds ==
  /\ TiInit => TiInv
  /\ TiInv /\ [TiNext]_tiVars => TiInv'
<1>1. TiInit => TiInv
  BY DEF TiInit, TiInv, TiTypeOK, TiControl, ExpiriesCounted, TwoTimers, TiPrograms, Wrap
<1>2. TiInv /\ UNCHANGED tiVars => TiInv'
  BY DEF tiVars, TiInv, TiTypeOK, TiControl, ExpiriesCounted, Counted
<1> QED
  BY <1>1, <1>2, TiMainKeeps, TiTimerKeeps DEF TiNext

\* Every expiry of a timer is printed once, and a stopped timer does not expire again.
THEOREM EveryExpiryCounted == TiSpec => []ExpiriesCounted
<1>1. TiInv => ExpiriesCounted
  BY DEF TiInv
<1> QED
  BY <1>1, TiInvHolds, PTL DEF TiSpec
-----------------------------------------------------------------------------
(* LedFade *)

\* The brightness is a number of whole steps, of which n lead from 0 to 100.
OnStep(n) ==
  \E k \in 0..n :
    /\ brightness = k * FADE_STEP
    /\ (direction = FADE_STEP /\ k < n) \/ (direction = -FADE_STEP /\ k > 0)

\* Whole steps lie between 0 and 100, and only the first and the last of them is a limit.
LEMMA StepsInside ==
  ASSUME NEW n \in 1..100, n * FADE_STEP = 100, NEW k \in 0..n
  PROVE  /\ k * FADE_STEP \in 0..100
         /\ k * FADE_STEP = 0 <=> k = 0
         /\ k * FADE_STEP = 100 <=> k = n
<1>1. FADE_STEP \in 1..100
  BY FadeAssumption
<1>2. k * FADE_STEP + (n - k) * FADE_STEP = 100
  BY <1>1
<1>3. k * FADE_STEP \in Nat /\ (k = 0 \/ k * FADE_STEP >= 1)
  BY <1>1
<1>4. (n - k) * FADE_STEP \in Nat /\ (k = n \/ (n - k) * FADE_STEP >= 1)
  BY <1>1
<1> QED
  BY <1>2, <1>3, <1>4

\* Whole steps: n of them lead from 0 to 100, at the start none is made.
LEMMA StepAtStart == ASSUME LedInit, NEW n \in 1..100 PROVE OnStep(n)
<1>1. 0 \in 0..n /\ 0 < n /\ brightness = 0 * FADE_STEP /\ direction = FADE_STEP
  BY FadeAssumption DEF LedInit
<1> SUFFICES \E k \in 0..n :
               /\ brightness = k * FADE_STEP
               /\ (direction = FADE_STEP /\ k < n) \/ (direction = -FADE_STEP /\ k > 0)
  BY Zenon DEF OnStep
<1> WITNESS 0 \in 0..n
<1> QED
  BY Zenon, <1>1

\* A step of the fade makes one more or one less.
LEMMA StepMade ==
  ASSUME NEW n \in 1..100, n * FADE_STEP = 100, OnStep(n), [main_led]_ledVars
  PROVE  OnStep(n)'
<1>1. CASE UNCHANGED <<brightness, direction>>
  BY <1>1 DEF OnStep
<1>2. CASE brightness' = (brightness + direction) % 256
           /\ direction' = IF AtLimit(brightness') THEN -direction ELSE direction
  <2>1. PICK k \in 0..n :
          /\ brightness = k * FADE_STEP
          /\ (direction = FADE_STEP /\ k < n) \/ (direction = -FADE_STEP /\ k > 0)
    BY DEF OnStep
  <2>2. FADE_STEP \in 1..100
    BY FadeAssumption
  <2>3. PICK m \in 0..n :
          /\ brightness + direction = m * FADE_STEP
          /\ m = IF direction = FADE_STEP THEN k + 1 ELSE k - 1
    <3>1. CASE direction = FADE_STEP
      BY <2>1, <2>2, <3>1
    <3>2. CASE direction = -FADE_STEP
      BY <2>1, <2>2, <3>2
    <3> QED
      BY <2>1, <3>1, <3>2
  <2>4. m * FADE_STEP \in 0..100 /\ (AtLimit(m * FADE_STEP) <=> m = 0 \/ m = n)
    BY StepsInside DEF AtLimit
  <2>5. brightness' = m * FADE_STEP
    BY <1>2, <2>3, <2>4
  <2>6. CASE m = 0 \/ m = n
    <3>1. direction' = -direction
      BY <1>2, <2>4, <2>5, <2>6
    <3>2. (direction' = FADE_STEP /\ m < n) \/ (direction' = -FADE_STEP /\ m > 0)
      <4>1. CASE direction = FADE_STEP
        BY <2>1, <2>2, <2>3, <2>6, <3>1, <4>1
      <4>2. CASE direction = -FADE_STEP
        <5>1. m = k - 1 /\ k \in 0..n /\ m = 0
          BY <2>1, <2>2, <2>3, <2>6, <4>2
        <5> QED
          BY <2>2, <3>1, <4>2, <5>1
      <4> QED
        BY <2>1, <4>1, <4>2
    <3> QED
      BY <2>5, <3>2 DEF OnStep
  <2>7. CASE m # 0 /\ m # n
    <3>1. direction' = direction
      BY <1>2, <2>4, <2>5, <2>7
    <3> QED
      BY <2>1, <2>5, <2>7, <3>1 DEF OnStep
  <2> QED
    BY <2>6, <2>7
<1> QED
  BY <1>1, <1>2 DEF ledVars, main_led

\* The fade stays between 0 and 100, and has two directions.
LEMMA StepFades ==
  ASSUME NEW n \in 1..100, n * FADE_STEP = 100, OnStep(n)
  PROVE  FadesBothWays /\ brightness \in 0..255 /\ direction \in {FADE_STEP, -FADE_STEP}
<1>1. PICK k \in 0..n :
        /\ brightness = k * FADE_STEP
        /\ (direction = FADE_STEP /\ k < n) \/ (direction = -FADE_STEP /\ k > 0)
  BY DEF OnStep
<1>2. /\ brightness \in 0..100
      /\ brightness = 0 <=> k = 0
      /\ brightness = 100 <=> k = n
  BY <1>1, StepsInside
<1>3. FADE_STEP > 0 /\ -FADE_STEP < 0
  BY FadeAssumption
<1> QED
  BY <1>1, <1>2, <1>3 DEF FadesBothWays

\* Some number of steps leads from 0 to 100, and the fade is on one of them.
LedInv ==
  /\ \E n \in 1..100 : n * FADE_STEP = 100 /\ OnStep(n)
  /\ ledPc \in {"set", "end"}

\* It holds at the start and is kept.
LEMMA LedInvHolds ==
  /\ LedInit => LedInv
  /\ LedInv /\ [main_led]_ledVars => LedInv'
<1>1. ASSUME LedInit PROVE LedInv
  <2>1. PICK n \in 1..100 : n * FADE_STEP = 100
    BY FadeAssumption
  <2> QED
    BY Zenon, <1>1, <2>1, StepAtStart DEF LedInv, LedInit
<1>2. ASSUME LedInv, [main_led]_ledVars PROVE LedInv'
  <2>1. PICK n \in 1..100 : n * FADE_STEP = 100 /\ OnStep(n)
    BY <1>2 DEF LedInv
  <2>2. OnStep(n)'
    BY <1>2, <2>1, StepMade
  <2>3. ledPc' \in {"set", "end"}
    BY <1>2 DEF LedInv, main_led, ledVars
  <2> QED
    BY Zenon, <2>1, <2>2, <2>3 DEF LedInv
<1> QED
  BY <1>1, <1>2

\* It gives the types and the range.
LEMMA LedFades == LedInv => FadesBothWays /\ LedTypeOK
<1> SUFFICES ASSUME LedInv PROVE FadesBothWays /\ LedTypeOK
  OBVIOUS
<1>1. PICK n \in 1..100 : n * FADE_STEP = 100 /\ OnStep(n)
  BY DEF LedInv
<1> QED
  BY <1>1, StepFades DEF LedInv, LedTypeOK

\* The fade stays between 0 and 100 and turns at both, for every step that divides 100.
THEOREM LedFadesBothWays == LedSpec => []FadesBothWays
  BY LedInvHolds, LedFades, PTL DEF LedSpec
-----------------------------------------------------------------------------
(* All samples *)

\* One sample runs and the others rest: every one of them keeps its own invariant.
KernelInv ==
  /\ MqTypeOK /\ MqInv /\ EvInv /\ NqTypeInv /\ ZbTypeOK /\ ZbInv
  /\ WqTypeOK /\ WqInv /\ SmInv /\ SmRest /\ TiInv /\ LedInv

\* The invariants hold at the start.
LEMMA KernelInitInv == Init => KernelInv /\ Msgs!Init /\ Items!Init /\ Messages!Init
  BY MqTypesHold, MqInitInv, EvInitInv, NqTypeInvHolds, ZbTypesHold, ZbInitInv, WqTypesHold,
     WqInitInv, SmInvHolds, SmRestHolds, TiInvHolds, LedInvHolds DEF Init, KernelInv

\* A step is a step of the sample that runs; for the others it changes nothing.
LEMMA OneRuns ==
  [Next]_vars => /\ [MqNext]_mqVars /\ [EvNext]_evVars /\ [NqNext]_nqVars /\ [ZbNext]_zbVars
                 /\ [WqNext]_wqVars /\ [SmNext]_smVars /\ [TiNext]_tiVars /\ [main_led]_ledVars
<1>1. Next => /\ [MqNext]_mqVars /\ [EvNext]_evVars /\ [NqNext]_nqVars /\ [ZbNext]_zbVars
              /\ [WqNext]_wqVars /\ [SmNext]_smVars /\ [TiNext]_tiVars /\ [main_led]_ledVars
  BY DEF Next, Others
<1>2. UNCHANGED vars => /\ UNCHANGED mqVars /\ UNCHANGED evVars /\ UNCHANGED nqVars
                        /\ UNCHANGED zbVars /\ UNCHANGED wqVars /\ UNCHANGED smVars
                        /\ UNCHANGED tiVars /\ UNCHANGED ledVars
  BY DEF vars
<1> QED
  BY <1>1, <1>2

\* So all of them are kept, and what Delivery allows is all that can be seen.
LEMMA KernelNextInv ==
  KernelInv /\ [Next]_vars => /\ KernelInv'
                             /\ [Msgs!Next]_(Msgs!deliveryVars)
                             /\ [Items!Next]_(Items!deliveryVars)
                             /\ [Messages!Next]_(Messages!deliveryVars)
  BY OneRuns, MqTypesHold, MqNextKeeps, EvNextInv, NqTypeInvHolds, ZbTypesHold, ZbNextKeeps,
     WqTypesHold, WqNextKeeps, SmInvHolds, SmRestHolds, TiInvHolds, LedInvHolds DEF KernelInv

\* Types of every sample of the kernel's objects, whichever runs.
THEOREM KernelTypesCorrect == Spec => []TypesOK
<1>1. KernelInv => TypesOK
  <2>1. TiInv => TiTypeOK
    BY DEF TiInv
  <2> QED
    BY <2>1, EvFresh, NqTypes, SmTypes, LedFades DEF KernelInv, TypesOK
<1> QED
  BY <1>1, KernelInitInv, KernelNextInv, PTL DEF Spec

\* The samples as MCKernel runs them: no post is received twice, no node is linked twice, the
\* machine is where its inputs lead to, every expiry is printed once and the LED fades between 0
\* and 100; messages, submissions and publications are delivered as Delivery says.
THEOREM KernelHolds ==
  Spec => /\ [](EventsFresh /\ NodesOnce /\ StateFollows /\ ExpiriesCounted /\ FadesBothWays)
          /\ MsgsDelivered /\ ItemsSeen /\ ObserversSee
<1>1. KernelInv => EventsFresh /\ NodesOnce /\ StateFollows /\ ExpiriesCounted /\ FadesBothWays
  BY EvFresh, SmFollows, LedFades DEF KernelInv, NqTypeInv, NqInv, TiInv
<1> QED
  BY <1>1, KernelInitInv, KernelNextInv, PTL
  DEF Spec, MsgsDelivered, Msgs!Spec, ItemsSeen, Items!Spec, ObserversSee, Messages!Spec
=============================================================================
