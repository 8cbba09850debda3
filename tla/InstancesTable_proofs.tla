------------------------ MODULE InstancesTable_proofs ------------------------
(***************************************************************************)
(* Proofs about the EC2 table, for any set of instances, any depth of      *)
(* nested handlers and any number of events: the table lists no instance   *)
(* twice, an idle program has closed what it opened, and nothing goes      *)
(* wrong before a handler has been entered from inside another one.        *)
(***************************************************************************)
EXTENDS InstancesTable, FiniteSetTheorems, SequenceTheorems, TLAPS

-----------------------------------------------------------------------------
(***************************************************************************)
(* The stack of handlers.                                                  *)
(***************************************************************************)
Describes(f) == f.op \in {"updateTimer", "refresh"}

\* The handlers of a stack that have begun to reset the model.
Resetting(s) == {k \in DOMAIN s : Describes(s[k])}

\* What append adds to a sequence of frames.
LEMMA Pushed ==
  ASSUME NEW S, NEW s \in Seq(S), NEW f \in S
  PROVE  /\ Append(s, f) \in Seq(S)
         /\ Len(Append(s, f)) = Len(s) + 1
         /\ DOMAIN Append(s, f) = DOMAIN s \cup {Len(s) + 1}
         /\ \A k \in DOMAIN s : Append(s, f)[k] = s[k]
         /\ Append(s, f)[Len(s) + 1] = f
OBVIOUS

\* What taking the last frame away leaves.
LEMMA Popped ==
  ASSUME NEW S, NEW s \in Seq(S), s # << >>
  PROVE  /\ SubSeq(s, 1, Len(s) - 1) \in Seq(S)
         /\ Len(SubSeq(s, 1, Len(s) - 1)) = Len(s) - 1
         /\ DOMAIN SubSeq(s, 1, Len(s) - 1) = 1 .. (Len(s) - 1)
         /\ \A k \in 1 .. (Len(s) - 1) : SubSeq(s, 1, Len(s) - 1)[k] = s[k]
         /\ Len(s) \in Nat \ {0} /\ Len(s) \in DOMAIN s /\ s[Len(s)] \in S
<1>1. Len(s) \in Nat \ {0} /\ Len(s) \in DOMAIN s /\ s[Len(s)] \in S
  OBVIOUS
<1>2. \A k \in 1 .. (Len(s) - 1) : k \in DOMAIN s /\ s[k] \in S
  OBVIOUS
<1>3. SubSeq(s, 1, Len(s) - 1) = [k \in 1 .. (Len(s) - 1) |-> s[k]]
  BY <1>1
<1>4. [k \in 1 .. (Len(s) - 1) |-> s[k]] \in Seq(S)
  BY <1>1, <1>2
<1>5. Len([k \in 1 .. (Len(s) - 1) |-> s[k]]) = Len(s) - 1
  BY <1>1
<1> QED
  BY <1>1, <1>3, <1>4, <1>5

LEMMA ResettingIsFinite ==
  ASSUME NEW S, NEW s \in Seq(S)
  PROVE  /\ IsFiniteSet(Resetting(s))
         /\ Cardinality(Resetting(s)) \in 0 .. Len(s)
<1>1. /\ IsFiniteSet(1 .. Len(s)) /\ Cardinality(1 .. Len(s)) = Len(s)
      /\ Resetting(s) \subseteq 1 .. Len(s) /\ Len(s) \in Nat
  BY FS_Interval DEF Resetting
<1>2. /\ IsFiniteSet(Resetting(s))
      /\ Cardinality(Resetting(s)) <= Cardinality(1 .. Len(s))
  BY <1>1, FS_Subset
<1>3. Cardinality(Resetting(s)) \in Nat
  BY <1>2, FS_CardinalityType
<1> QED
  BY <1>1, <1>2, <1>3

\* A new handler adds its own reset to those in progress.
LEMMA ResettingPushed ==
  ASSUME NEW S, NEW s \in Seq(S), NEW f \in S
  PROVE  Cardinality(Resetting(Append(s, f))) =
           Cardinality(Resetting(s)) + (IF Describes(f) THEN 1 ELSE 0)
<1>1. Resetting(Append(s, f)) =
        IF Describes(f) THEN Resetting(s) \cup {Len(s) + 1} ELSE Resetting(s)
  BY Pushed DEF Resetting
<1>2. Len(s) + 1 \notin Resetting(s)
  BY DEF Resetting
<1>3. IsFiniteSet(Resetting(s)) /\ Cardinality(Resetting(s)) \in Nat
  BY ResettingIsFinite
<1>4. Cardinality(Resetting(s) \cup {Len(s) + 1}) = Cardinality(Resetting(s)) + 1
  BY <1>2, <1>3, FS_AddElement
<1> QED
  BY <1>1, <1>3, <1>4

\* Frames that differ in no operation reset the same.
LEMMA ResettingSame ==
  ASSUME NEW s, NEW t, DOMAIN s = DOMAIN t, \A k \in DOMAIN s : s[k].op = t[k].op
  PROVE  Resetting(s) = Resetting(t)
BY DEF Resetting, Describes

\* The handler that returns takes its reset along.
LEMMA ResettingPopped ==
  ASSUME NEW S, NEW s \in Seq(S), s # << >>
  PROVE  Cardinality(Resetting(SubSeq(s, 1, Len(s) - 1))) =
           Cardinality(Resetting(s)) - (IF Describes(s[Len(s)]) THEN 1 ELSE 0)
<1> DEFINE p == SubSeq(s, 1, Len(s) - 1)
<1>1. /\ p \in Seq(S) /\ DOMAIN p = 1 .. (Len(s) - 1) /\ Len(s) \in Nat \ {0}
      /\ \A k \in DOMAIN p : p[k] = s[k]
      /\ DOMAIN s = 1 .. Len(s)
  BY Popped
<1> HIDE DEF p
<1>2. Resetting(p) =
        IF Describes(s[Len(s)]) THEN Resetting(s) \ {Len(s)} ELSE Resetting(s)
  BY <1>1 DEF Resetting
<1>3. IsFiniteSet(Resetting(s)) /\ Cardinality(Resetting(s)) \in Nat
  BY ResettingIsFinite
<1>4. Describes(s[Len(s)]) => Len(s) \in Resetting(s)
  BY <1>1 DEF Resetting
<1>5. Describes(s[Len(s)]) =>
        Cardinality(Resetting(s) \ {Len(s)}) = Cardinality(Resetting(s)) - 1
  BY <1>3, <1>4, FS_RemoveElement
<1> QED
  BY <1>2, <1>3, <1>5 DEF p
-----------------------------------------------------------------------------
(***************************************************************************)
(* The inductive invariant.                                                *)
(***************************************************************************)
\* What a handler in progress has received is distinct and no longer asked for;
\* and unless a refresh has replaced the rows under it, the rows are there that
\* it works on.
FrameInv(f) ==
  /\ \A i, j \in DOMAIN f.got : f.got[i].instanceId = f.got[j].instanceId => i = j
  /\ \A i \in DOMAIN f.got : f.got[i].instanceId \notin f.todo
  /\ f.op = "startStop" /\ f.stale => f.pc = "auth"
  /\ ~f.stale => /\ f.op = "startStop" => f.row \in DOMAIN instances
                 /\ f.op = "updateTimer" =>
                      /\ f.todo \subseteq RowIds
                      /\ \A i \in DOMAIN f.got : f.got[i].instanceId \in RowIds

FramesInv == \A k \in DOMAIN stack : FrameInv(stack[k])

\* Handlers are entered only while the running one waits for Okta.
OthersWait == \A k \in DOMAIN stack : k < Len(stack) => stack[k].pc = "auth"

\* Every open reset belongs to a handler in progress, and the last handler to
\* return has shut the SDK down.
StackInv ==
  /\ stack \in Seq(Frames)
  /\ Len(stack) <= MaxDepth
  /\ resets = Cardinality(Resetting(stack))
  /\ stack = << >> => api = "down"
  /\ FramesInv
  /\ OthersWait

\* Before a handler has been entered inside another one there is only one, the
\* SDK is up for it, the timer runs for a table that is being read, and an open
\* dialog refers to the row it was opened for.
Unnested ==
  ~nested => /\ Len(stack) <= 1
             /\ fault = "none"
             /\ stack # << >> => /\ api = "up"
                                 /\ ~Top.stale
                                 /\ Top.op # "updateTimer" => dialog = NoDialog
                                 /\ Describes(Top) => timer
             /\ dialog # NoDialog => /\ dialog.row \in DOMAIN instances
                                     /\ instances[dialog.row].instanceId = dialog.id

\* The types of what is not the stack.
OtherTypes ==
  /\ cloud \in [InstanceIds -> LiveStates \cup {Absent}]
  /\ instances \in Seq(Rows)
  /\ timer \in BOOLEAN
  /\ dialog \in [row : Nat, id : InstanceIds] \cup {NoDialog}
  /\ api \in {"up", "down"}
  /\ fault \in Faults
  /\ acted \subseteq InstanceIds \X InstanceIds
  /\ marked \subseteq InstanceIds
  /\ nested \in BOOLEAN
  /\ events \in 0 .. MaxEvents

\* What TransitionalIsPolled needs of the rows that the poll asks for.
RowsInTransition == nested \/ \A id \in PolledIds : timer \/ id \in marked

IInv ==
  /\ OtherTypes
  /\ StackInv
  /\ RowsAreDistinct
  /\ RowFaultsNeedNestedRefresh
  /\ Unnested
  /\ ActedOnWhatWasClicked
  /\ RowsInTransition

-----------------------------------------------------------------------------
(***************************************************************************)
(* What happens to the stack.                                              *)
(***************************************************************************)
SameRows == DOMAIN instances' = DOMAIN instances /\ RowIds' = RowIds

LEMMA FrameInvKept ==
  ASSUME NEW f \in Frames, FrameInv(f), SameRows
  PROVE  FrameInv(f)'
BY DEF FrameInv, SameRows

LEMMA ResetsTyped == ASSUME StackInv PROVE resets \in 0 .. MaxDepth
<1>1. Cardinality(Resetting(stack)) \in 0 .. Len(stack)
  BY ResettingIsFinite DEF StackInv
<1> QED
  BY <1>1, DepthAssumption DEF StackInv

LEMMA FrameTyped ==
  ASSUME NEW op \in {"updateTimer", "refresh", "startStop", "ecr"}, NEW row \in Nat,
         NEW call \in {"start", "stop", "describe", "images"},
         NEW todo \in SUBSET InstanceIds
  PROVE  /\ Frame(op, row, call, todo) \in Frames
         /\ Frame(op, row, call, todo).op = op
         /\ ~Frame(op, row, call, todo).stale
         /\ Frame(op, row, call, todo).row = row
         /\ Frame(op, row, call, todo).todo = todo
         /\ Frame(op, row, call, todo).got = << >>
BY DEF Frame, Frames

\* A handler starts: its frame goes on top of those in progress.
LEMMA StackPushed ==
  ASSUME StackInv, NEW f \in Frames, FrameInv(f), Len(stack) < MaxDepth,
         stack # << >> => Top.pc = "auth",
         stack' = Append(stack, f), instances' = instances,
         resets' = resets + (IF Describes(f) THEN 1 ELSE 0)
  PROVE  StackInv' /\ Len(stack') = Len(stack) + 1 /\ Top' = f
<1>1. /\ stack' \in Seq(Frames) /\ Len(stack') = Len(stack) + 1
      /\ DOMAIN stack' = DOMAIN stack \cup {Len(stack) + 1}
      /\ \A k \in DOMAIN stack : stack'[k] = stack[k]
      /\ stack'[Len(stack) + 1] = f
  BY Pushed DEF StackInv
<1>2. resets' = Cardinality(Resetting(stack'))
  BY ResettingPushed DEF StackInv
<1>3. SameRows
  BY DEF SameRows, RowIds
<1>5. FramesInv'
  BY <1>1, <1>3 DEF StackInv, FramesInv, FrameInv, SameRows
<1>6. Len(stack) \in Nat /\ Len(stack') <= MaxDepth
  BY <1>1, DepthAssumption DEF StackInv
<1>7. OthersWait'
  BY <1>1 DEF StackInv, OthersWait, Top
<1> QED
  BY <1>1, <1>2, <1>5, <1>6, <1>7 DEF StackInv, Top

\* The running handler goes on: its frame changes.
LEMMA StackReplaced ==
  ASSUME StackInv, NEW f \in Frames, FrameInv(f), stack # << >>, f.op = Top.op,
         stack' = Replace(f), UNCHANGED << instances, resets >>
  PROVE  StackInv' /\ Len(stack') = Len(stack) /\ Top' = f
<1>1. /\ Pop \in Seq(Frames) /\ Len(Pop) = Len(stack) - 1
      /\ Len(stack) \in Nat \ {0}
      /\ DOMAIN Pop = 1 .. (Len(stack) - 1)
      /\ \A k \in 1 .. (Len(stack) - 1) : Pop[k] = stack[k]
  BY Popped DEF StackInv, Pop
<1>2. /\ stack' \in Seq(Frames) /\ Len(stack') = Len(stack)
      /\ DOMAIN stack' = 1 .. Len(stack)
      /\ \A k \in 1 .. (Len(stack) - 1) : stack'[k] = stack[k]
      /\ stack'[Len(stack)] = f
  BY <1>1, Pushed DEF Replace
<1>3. Resetting(stack') = Resetting(stack)
  <2>1. DOMAIN stack = 1 .. Len(stack)
    BY DEF StackInv
  <2>2. \A k \in DOMAIN stack : stack'[k].op = stack[k].op
    BY <1>1, <1>2, <2>1 DEF Top
  <2> QED
    BY <1>2, <2>1, <2>2 DEF Resetting, Describes
<1>4. SameRows
  BY DEF SameRows, RowIds
<1>5. FramesInv'
  BY <1>1, <1>2, <1>4 DEF StackInv, FramesInv, FrameInv, SameRows
<1>6. OthersWait'
  BY <1>1, <1>2 DEF StackInv, OthersWait
<1> QED
  BY <1>1, <1>2, <1>3, <1>5, <1>6 DEF StackInv, Top

\* The running handler returns, having shut the SDK down.
LEMMA StackPopped ==
  ASSUME StackInv, stack # << >>, stack' = Pop, api' = "down", SameRows,
         resets' = resets - (IF Describes(Top) THEN 1 ELSE 0)
  PROVE  StackInv' /\ Len(stack') = Len(stack) - 1
<1>1. /\ Pop \in Seq(Frames) /\ Len(Pop) = Len(stack) - 1
      /\ Len(stack) \in Nat \ {0}
      /\ DOMAIN Pop = 1 .. (Len(stack) - 1)
      /\ \A k \in 1 .. (Len(stack) - 1) : Pop[k] = stack[k]
      /\ DOMAIN stack = 1 .. Len(stack)
  BY Popped DEF StackInv, Pop
<1>2. resets' = Cardinality(Resetting(stack'))
  BY ResettingPopped DEF StackInv, Pop, Top
<1>3. FramesInv'
  BY <1>1 DEF StackInv, FramesInv, FrameInv, SameRows
<1>4. Len(stack') <= MaxDepth
  BY <1>1, DepthAssumption DEF StackInv
<1>5. OthersWait'
  BY <1>1 DEF StackInv, OthersWait
<1> QED
  BY <1>1, <1>2, <1>3, <1>4, <1>5 DEF StackInv

\* A handler under a refresh that returns is told so.
Outdated(f) == [f EXCEPT !.stale = TRUE]

LEMMA OutdatedFrame ==
  ASSUME NEW f \in Frames
  PROVE  /\ Outdated(f) \in Frames
         /\ Outdated(f).op = f.op
         /\ Outdated(f).stale
         /\ Outdated(f).got = f.got
         /\ Outdated(f).todo = f.todo
         /\ Outdated(f).pc = f.pc
<1>1. Outdated(f).stale = TRUE /\ Outdated(f) \in Frames
  BY DEF Outdated, Frames
<1>2. Outdated(f).op = f.op /\ Outdated(f).pc = f.pc
  BY DEF Outdated, Frames
<1>3. Outdated(f).got = f.got /\ Outdated(f).todo = f.todo
  BY DEF Outdated, Frames
<1> QED
  BY <1>1, <1>2, <1>3

\* A refresh returns: the handlers under it are told.
LEMMA StackOutdated ==
  ASSUME StackInv, stack # << >>, api' = "down",
         stack' = [k \in DOMAIN Pop |-> Outdated(Pop[k])],
         resets' = resets - (IF Describes(Top) THEN 1 ELSE 0)
  PROVE  StackInv' /\ Len(stack') = Len(stack) - 1
<1>1. /\ Pop \in Seq(Frames) /\ Len(Pop) = Len(stack) - 1
      /\ Len(stack) \in Nat \ {0}
      /\ DOMAIN Pop = 1 .. (Len(stack) - 1)
      /\ \A k \in 1 .. (Len(stack) - 1) : Pop[k] = stack[k] /\ Pop[k] \in Frames
      /\ DOMAIN stack = 1 .. Len(stack)
  BY Popped DEF StackInv, Pop
<1>2. \A k \in DOMAIN Pop : /\ Outdated(Pop[k]) \in Frames
                            /\ Outdated(Pop[k]).op = Pop[k].op
                            /\ Outdated(Pop[k]).stale
                            /\ Outdated(Pop[k]).got = Pop[k].got
                            /\ Outdated(Pop[k]).todo = Pop[k].todo
                            /\ Outdated(Pop[k]).pc = Pop[k].pc
  BY <1>1, OutdatedFrame
<1>3. /\ stack' \in Seq(Frames) /\ Len(stack') = Len(stack) - 1
      /\ DOMAIN stack' = DOMAIN Pop
  BY <1>1, <1>2
<1>4. Resetting(stack') = Resetting(Pop)
  BY <1>2, <1>3 DEF Resetting, Describes
<1>5. resets' = Cardinality(Resetting(stack'))
  BY <1>4, ResettingPopped DEF StackInv, Pop, Top
<1>6. FramesInv'
  BY <1>1, <1>2, <1>3 DEF StackInv, OthersWait, FramesInv, FrameInv
<1>7. Len(stack') <= MaxDepth
  BY <1>1, <1>3, DepthAssumption DEF StackInv
<1>8. OthersWait'
  BY <1>1, <1>2, <1>3 DEF StackInv, OthersWait
<1> QED
  BY <1>3, <1>5, <1>6, <1>7, <1>8 DEF StackInv

\* The stack is left alone.
LEMMA StackKept ==
  ASSUME StackInv, UNCHANGED << stack, resets >>, SameRows,
         stack = << >> => api' = "down"
  PROVE  StackInv'
BY FrameInvKept DEF StackInv, FramesInv, OthersWait, FrameInv, SameRows

LEMMA TypeFromParts == OtherTypes /\ StackInv => TypeOK
BY ResetsTyped DEF OtherTypes, StackInv, TypeOK

-----------------------------------------------------------------------------
(***************************************************************************)
(* The starts of the handlers.                                             *)
(***************************************************************************)
\* What a handler that starts keeps, whichever it is.
LEMMA StartKeeps ==
  ASSUME IInv, CanDispatch, Dispatched,
         NEW f \in Frames, FrameInv(f), ~f.stale,
         stack' = Append(stack, f), api' = "up",
         resets' = resets + (IF Describes(f) THEN 1 ELSE 0),
         timer' \in {timer, TRUE}, Describes(f) => timer',
         dialog' \in {dialog, NoDialog}, f.op # "updateTimer" => dialog' = NoDialog,
         acted' \subseteq InstanceIds \X InstanceIds, ActedOnWhatWasClicked',
         events' \in 0 .. MaxEvents,
         UNCHANGED << cloud, instances, fault, marked >>
  PROVE  IInv'
<1> USE DEF IInv
<1>1. nested' \in BOOLEAN /\ (~nested' => ~nested /\ stack = << >>)
  BY DEF OtherTypes, Dispatched
<1>2. OtherTypes'
  BY <1>1 DEF OtherTypes
<1>3. StackInv' /\ Len(stack') = Len(stack) + 1 /\ Top' = f
  BY StackPushed DEF CanDispatch
<1>4. RowsAreDistinct' /\ RowFaultsNeedNestedRefresh'
  BY DEF RowsAreDistinct, RowFaultsNeedNestedRefresh, CanDispatch
<1>5. Unnested'
  BY <1>1, <1>3 DEF Unnested
<1>6. PolledIds' = PolledIds
  BY DEF PolledIds
<1>7. RowsInTransition'
  BY <1>1, <1>6 DEF RowsInTransition, OtherTypes
<1> QED
  BY <1>2, <1>3, <1>4, <1>5, <1>7

LEMMA EventTyped == IInv /\ UserEvent => events' \in 0 .. MaxEvents
BY EventsAssumption DEF IInv, OtherTypes, UserEvent

LEMMA PolledAreRows == IInv => PolledIds \subseteq RowIds /\ RowIds \subseteq InstanceIds
<1> SUFFICES ASSUME IInv PROVE PolledIds \subseteq RowIds /\ RowIds \subseteq InstanceIds
  OBVIOUS
<1>1. \A i \in DOMAIN instances : instances[i] \in Rows
  BY DEF IInv, OtherTypes
<1>2. RowIds \subseteq InstanceIds
  BY <1>1 DEF RowIds, Rows
<1>3. PolledIds \subseteq RowIds
  BY DEF PolledIds, RowIds
<1> QED
  BY <1>2, <1>3

LEMMA UpdateTimerKeeps ==
  ASSUME IInv, UpdateTimer
  PROVE  IInv'
<1>1. CASE PolledIds = {}
  <2>1. nested' \in BOOLEAN /\ (~nested' => ~nested /\ stack = << >>)
    BY DEF IInv, OtherTypes, UpdateTimer, Dispatched
  <2>2. UNCHANGED << stack, api, resets, cloud, instances, dialog, fault, acted, marked, events >>
        /\ timer' = FALSE
    BY <1>1 DEF UpdateTimer
  <2>3. SameRows /\ PolledIds' = PolledIds
    BY <2>2 DEF SameRows, RowIds, PolledIds
  <2>4. StackInv'
    BY <2>2, <2>3, StackKept DEF IInv, StackInv
  <2>5. OtherTypes'
    BY <2>1, <2>2 DEF IInv, OtherTypes
  <2>6. Unnested'
    BY <2>1, <2>2 DEF IInv, Unnested
  <2>7. RowsAreDistinct' /\ RowFaultsNeedNestedRefresh'
    BY <2>2 DEF IInv, RowsAreDistinct, RowFaultsNeedNestedRefresh, Top
  <2>8. ActedOnWhatWasClicked'
    BY <2>1, <2>2 DEF IInv, ActedOnWhatWasClicked
  <2>9. RowsInTransition'
    BY <1>1, <2>3 DEF RowsInTransition
  <2> QED
    BY <2>4, <2>5, <2>6, <2>7, <2>8, <2>9 DEF IInv
<1>2. CASE PolledIds # {}
  <2> DEFINE f == Frame("updateTimer", 0, "describe", PolledIds)
  <2>1. /\ f \in Frames /\ f.op = "updateTimer" /\ ~f.stale
        /\ f.todo = PolledIds /\ f.got = << >>
    BY PolledAreRows, FrameTyped
  <2>2. /\ CanDispatch /\ Dispatched /\ timer
        /\ stack' = Append(stack, f) /\ api' = "up" /\ resets' = resets + 1
        /\ UNCHANGED << timer, cloud, instances, dialog, fault, acted, marked, events >>
    BY <1>2 DEF UpdateTimer
  <2> HIDE DEF f
  <2>3. FrameInv(f) /\ Describes(f)
    BY <2>1, PolledAreRows DEF FrameInv, Describes
  <2>4. /\ acted' \subseteq InstanceIds \X InstanceIds /\ ActedOnWhatWasClicked'
        /\ events' \in 0 .. MaxEvents
    BY <2>2 DEF IInv, OtherTypes, ActedOnWhatWasClicked, Dispatched
  <2> QED
    BY <2>1, <2>2, <2>3, <2>4, StartKeeps
<1> QED
  BY <1>1, <1>2

LEMMA RefreshKeeps ==
  ASSUME IInv, BtnRefreshInstancesClick
  PROVE  IInv'
<1> DEFINE f == Frame("refresh", 0, "describe", InstanceIds)
<1>1. /\ f \in Frames /\ f.op = "refresh" /\ ~f.stale /\ f.got = << >>
  BY FrameTyped
<1>2. /\ CanDispatch /\ Dispatched /\ UserEvent /\ timer' = TRUE
      /\ stack' = Append(stack, f) /\ api' = "up" /\ resets' = resets + 1
      /\ dialog' = NoDialog
      /\ UNCHANGED << cloud, instances, fault, acted, marked >>
  BY DEF BtnRefreshInstancesClick
<1> HIDE DEF f
<1>3. FrameInv(f) /\ Describes(f)
  BY <1>1 DEF FrameInv, Describes
<1>4. /\ acted' \subseteq InstanceIds \X InstanceIds /\ ActedOnWhatWasClicked'
      /\ events' \in 0 .. MaxEvents
  BY <1>2, EventTyped DEF IInv, OtherTypes, ActedOnWhatWasClicked, Dispatched
<1> QED
  BY <1>1, <1>2, <1>3, <1>4, StartKeeps

LEMMA RefreshEcrKeeps ==
  ASSUME IInv, BtnRefreshEcrClick
  PROVE  IInv'
<1> DEFINE f == Frame("ecr", 0, "images", {})
<1>1. /\ f \in Frames /\ f.op = "ecr" /\ ~f.stale /\ f.got = << >>
  BY FrameTyped
<1>2. /\ CanDispatch /\ Dispatched /\ UserEvent
      /\ stack' = Append(stack, f) /\ api' = "up" /\ resets' = resets
      /\ dialog' = NoDialog
      /\ UNCHANGED << cloud, instances, timer, fault, acted, marked >>
  BY DEF BtnRefreshEcrClick
<1> HIDE DEF f
<1>3. FrameInv(f) /\ ~Describes(f)
  BY <1>1 DEF FrameInv, Describes
<1>4. /\ acted' \subseteq InstanceIds \X InstanceIds /\ ActedOnWhatWasClicked'
      /\ events' \in 0 .. MaxEvents
  BY <1>2, EventTyped DEF IInv, OtherTypes, ActedOnWhatWasClicked, Dispatched
<1>5. resets' = resets + (IF Describes(f) THEN 1 ELSE 0)
  BY <1>2, <1>3, ResetsTyped DEF IInv
<1> QED
  BY <1>1, <1>2, <1>3, <1>4, <1>5, StartKeeps

\* Marking a row changes its state and nothing else of the table.
LEMMA MarkFacts ==
  ASSUME IInv, NEW i \in DOMAIN instances, Mark(i)
  PROVE  /\ instances' \in Seq(Rows) /\ marked' \subseteq InstanceIds
         /\ SameRows /\ RowsAreDistinct'
         /\ \A j \in DOMAIN instances : instances'[j].instanceId = instances[j].instanceId
         /\ PolledIds' \subseteq PolledIds \cup {instances[i].instanceId}
         /\ marked' = marked \cup {instances[i].instanceId}
<1>1. /\ instances \in Seq(Rows) /\ marked \subseteq InstanceIds
      /\ \A j \in DOMAIN instances : instances[j] \in Rows
  BY DEF IInv, OtherTypes
<1> DEFINE r == [instances[i] EXCEPT !.instanceState = "pending"]
<1>2. r \in Rows /\ r.instanceId = instances[i].instanceId
  BY <1>1 DEF Rows, LiveStates
<1>3. instances' = [instances EXCEPT ![i] = r]
  BY DEF Mark
<1> HIDE DEF r
<1>4. instances' \in Seq(Rows) /\ DOMAIN instances' = DOMAIN instances
  BY <1>1, <1>2, <1>3
<1>5. \A j \in DOMAIN instances : /\ instances'[j].instanceId = instances[j].instanceId
                                  /\ j # i => instances'[j] = instances[j]
  BY <1>1, <1>2, <1>3
<1>6. SameRows
  BY <1>4, <1>5 DEF SameRows, RowIds
<1>7. RowsAreDistinct'
  BY <1>4, <1>5 DEF IInv, RowsAreDistinct
<1>8. PolledIds' \subseteq PolledIds \cup {instances[i].instanceId}
  BY <1>4, <1>5 DEF PolledIds
<1>9. marked' = marked \cup {instances[i].instanceId} /\ marked' \subseteq InstanceIds
  BY <1>1 DEF Mark, Rows
<1> QED
  BY <1>4, <1>5, <1>6, <1>7, <1>8, <1>9

LEMMA StartStopClickKeeps ==
  ASSUME IInv, NEW i \in DOMAIN instances, StartStopClick(i)
  PROVE  IInv'
<1> USE DEF StartStopClick
<1>1. nested' \in BOOLEAN /\ (~nested' => ~nested /\ stack = << >>)
  BY DEF IInv, OtherTypes, Dispatched
<1>2. dialog' \in [row : Nat, id : InstanceIds]
  <2>1. i \in Nat /\ instances[i] \in Rows
    BY DEF IInv, OtherTypes
  <2> QED
    BY <2>1 DEF Rows
<1>3. OtherTypes'
  BY <1>1, <1>2, EventTyped DEF IInv, OtherTypes
<1>4. SameRows /\ PolledIds' = PolledIds
  BY DEF SameRows, RowIds, PolledIds
<1>5. StackInv'
  BY <1>4, StackKept DEF IInv, StackInv
<1>6. RowsAreDistinct' /\ RowFaultsNeedNestedRefresh'
  BY DEF IInv, RowsAreDistinct, RowFaultsNeedNestedRefresh, Top
<1>7. Unnested'
  BY <1>1 DEF IInv, Unnested
<1>8. ActedOnWhatWasClicked' /\ RowsInTransition'
  BY <1>1, <1>4 DEF IInv, ActedOnWhatWasClicked, RowsInTransition
<1> QED
  BY <1>3, <1>5, <1>6, <1>7, <1>8 DEF IInv

LEMMA DialogNoKeeps ==
  ASSUME IInv, DialogNo
  PROVE  IInv'
<1> USE DEF DialogNo, history
<1>1. OtherTypes'
  BY DEF IInv, OtherTypes
<1>2. SameRows /\ PolledIds' = PolledIds
  BY DEF SameRows, RowIds, PolledIds
<1>3. StackInv'
  BY <1>2, StackKept DEF IInv, StackInv
<1>4. RowsAreDistinct' /\ RowFaultsNeedNestedRefresh'
  BY DEF IInv, RowsAreDistinct, RowFaultsNeedNestedRefresh, Top
<1>5. Unnested'
  BY DEF IInv, Unnested, Top
<1>6. ActedOnWhatWasClicked' /\ RowsInTransition'
  BY <1>2 DEF IInv, ActedOnWhatWasClicked, RowsInTransition
<1> QED
  BY <1>1, <1>3, <1>4, <1>5, <1>6 DEF IInv

LEMMA PushKeeps ==
  ASSUME IInv, PushDockerImage
  PROVE  IInv'
<1> USE DEF PushDockerImage
<1>1. nested' \in BOOLEAN /\ (~nested' => ~nested /\ stack = << >>)
  BY DEF IInv, OtherTypes, Dispatched
<1>2. OtherTypes'
  BY <1>1, EventTyped DEF IInv, OtherTypes
<1>3. SameRows /\ PolledIds' = PolledIds
  BY DEF SameRows, RowIds, PolledIds
<1>4. StackInv'
  BY <1>3, StackKept DEF IInv
<1>5. RowsAreDistinct' /\ RowFaultsNeedNestedRefresh'
  BY DEF IInv, RowsAreDistinct, RowFaultsNeedNestedRefresh, Top
<1>6. Unnested'
  BY <1>1 DEF IInv, Unnested
<1>7. ActedOnWhatWasClicked' /\ RowsInTransition'
  BY <1>1, <1>3 DEF IInv, ActedOnWhatWasClicked, RowsInTransition
<1> QED
  BY <1>2, <1>4, <1>5, <1>6, <1>7 DEF IInv

LEMMA BtnStartStopKeeps ==
  ASSUME IInv, BtnStartStopClick
  PROVE  IInv'
<1> DEFINE n == dialog.row
           state == instances[n].instanceState
           f == Frame("startStop", n, IF state = "stopped" THEN "start" ELSE "stop", {})
<1>1. nested' \in BOOLEAN /\ (~nested' => ~nested /\ stack = << >>)
  BY DEF BtnStartStopClick, IInv, OtherTypes, Dispatched
<1>2. /\ CanDispatch /\ Dispatched /\ dialog # NoDialog /\ dialog' = NoDialog
      /\ UNCHANGED << cloud, timer, resets, events >>
  BY DEF BtnStartStopClick
<1>3. dialog \in [row : Nat, id : InstanceIds] /\ n \in Nat
  BY <1>2 DEF IInv, OtherTypes
<1>4. CASE n \notin DOMAIN instances
  <2>1. fault' = "bad_index" /\ UNCHANGED << instances, stack, api, acted, marked >>
    BY <1>4 DEF BtnStartStopClick
  <2>2. SameRows /\ PolledIds' = PolledIds
    BY <2>1 DEF SameRows, RowIds, PolledIds
  <2>3. StackInv'
    BY <1>2, <2>1, <2>2, StackKept DEF IInv, StackInv
  <2>4. OtherTypes'
    BY <1>1, <1>2, <2>1 DEF IInv, OtherTypes, Faults
  <2>5. Unnested'
    BY <1>1, <1>2, <1>4, <2>1 DEF IInv, Unnested
  <2>6. RowsAreDistinct' /\ RowFaultsNeedNestedRefresh'
    BY <2>1 DEF IInv, RowsAreDistinct, RowFaultsNeedNestedRefresh
  <2>7. ActedOnWhatWasClicked' /\ RowsInTransition'
    BY <1>1, <1>2, <2>1, <2>2 DEF IInv, ActedOnWhatWasClicked, RowsInTransition
  <2> QED
    BY <2>3, <2>4, <2>5, <2>6, <2>7 DEF IInv
<1>5. CASE n \in DOMAIN instances
  <2>0. instances[n] \in Rows
    BY <1>5 DEF IInv, OtherTypes
  <2>1. instances[n].instanceId \in InstanceIds
    BY <2>0 DEF Rows
  <2>2. acted' = acted \cup {<<dialog.id, instances[n].instanceId>>} /\ fault' = fault
    BY <1>5 DEF BtnStartStopClick
  <2>3. acted' \subseteq InstanceIds \X InstanceIds
    BY <1>3, <2>1, <2>2 DEF IInv, OtherTypes
  <2>4. ActedOnWhatWasClicked'
    BY <1>1, <1>2, <2>2 DEF IInv, ActedOnWhatWasClicked, Unnested
  <2>5. CASE state \in {"running", "stopped"}
    <3>1. /\ f \in Frames /\ f.op = "startStop" /\ ~f.stale /\ f.row = n
          /\ f.got = << >>
      BY <1>3, FrameTyped
    <3>2. stack' = Append(stack, f) /\ api' = "up" /\ UNCHANGED << instances, marked >>
      BY <1>5, <2>5 DEF BtnStartStopClick
    <3> HIDE DEF f
    <3>3. FrameInv(f) /\ ~Describes(f)
      BY <1>5, <3>1 DEF FrameInv, Describes
    <3>4. resets' = resets + (IF Describes(f) THEN 1 ELSE 0) /\ events' \in 0 .. MaxEvents
      BY <1>2, <3>3, ResetsTyped DEF IInv, OtherTypes
    <3> QED
      BY <1>2, <2>2, <2>3, <2>4, <3>1, <3>2, <3>3, <3>4, StartKeeps
  <2>6. CASE state \notin {"running", "stopped"}
    <3>1. Mark(n) /\ api' = "down" /\ UNCHANGED stack
      BY <1>5, <2>6 DEF BtnStartStopClick
    <3> HIDE DEF n
    <3>2. /\ instances' \in Seq(Rows) /\ marked' \subseteq InstanceIds
          /\ SameRows /\ RowsAreDistinct'
          /\ PolledIds' \subseteq PolledIds \cup {instances[n].instanceId}
          /\ marked' = marked \cup {instances[n].instanceId}
      BY <1>5, <3>1, MarkFacts
    <3>3. StackInv'
      BY <1>2, <3>1, <3>2, StackKept DEF IInv
    <3>4. OtherTypes'
      BY <1>1, <1>2, <2>2, <2>3, <3>1, <3>2 DEF IInv, OtherTypes
    <3>5. Unnested' /\ RowFaultsNeedNestedRefresh'
      BY <1>1, <1>2, <2>2, <3>1 DEF IInv, Unnested, RowFaultsNeedNestedRefresh, CanDispatch
    <3>6. RowsInTransition'
      BY <1>1, <1>2, <3>2 DEF IInv, RowsInTransition
    <3> QED
      BY <2>4, <3>2, <3>3, <3>4, <3>5, <3>6 DEF IInv
  <2> QED
    BY <2>5, <2>6
<1> QED
  BY <1>4, <1>5

-----------------------------------------------------------------------------
(***************************************************************************)
(* The rest of a handler.                                                  *)
(***************************************************************************)
LEMMA TopFacts ==
  ASSUME IInv, stack # << >>
  PROVE  /\ Top \in Frames /\ FrameInv(Top)
         /\ Len(stack) \in Nat \ {0} /\ Len(stack) \in DOMAIN stack
BY Popped DEF IInv, StackInv, FramesInv, Top

\* What a handler that goes on keeps, whichever it is.
LEMMA StepKeeps ==
  ASSUME IInv, Running, NEW f \in Frames, FrameInv(f),
         f.op = Top.op, f.stale = Top.stale, stack' = Replace(f),
         UNCHANGED << cloud, instances, timer, dialog, api, resets, fault, history, events >>
  PROVE  IInv'
<1> USE DEF IInv, history
<1>1. StackInv' /\ Len(stack') = Len(stack) /\ Top' = f
  BY StackReplaced DEF Running
<1>2. OtherTypes'
  BY DEF OtherTypes
<1>3. RowsAreDistinct' /\ RowFaultsNeedNestedRefresh' /\ ActedOnWhatWasClicked'
  BY DEF RowsAreDistinct, RowFaultsNeedNestedRefresh, ActedOnWhatWasClicked, Running
<1>4. stack' # << >>
  BY <1>1, TopFacts DEF Running
<1>5. Unnested'
  BY <1>1, <1>4 DEF Unnested, Running, Describes
<1>6. PolledIds' = PolledIds
  BY DEF PolledIds
<1>7. RowsInTransition'
  BY <1>6 DEF RowsInTransition
<1> QED
  BY <1>1, <1>2, <1>3, <1>5, <1>7

LEMMA CredentialsReadyKeeps ==
  ASSUME IInv, CredentialsReady
  PROVE  IInv'
<1> USE DEF CredentialsReady
<1>1. Running /\ Top.pc = "auth" /\ stack # << >>
  BY DEF Running
<1>2. /\ Top \in Frames /\ FrameInv(Top)
  BY <1>1, TopFacts
<1>3. UNCHANGED << cloud, instances, timer, dialog, api, resets, acted, marked, nested, events >>
  BY DEF history
<1>4. CASE UNCHANGED stack /\ fault' \in {"api_down", "dangling_row"}
           /\ (fault' = "api_down" => api = "down") /\ (fault' = "dangling_row" => Top.stale)
  <2>1. SameRows /\ PolledIds' = PolledIds
    BY <1>3 DEF SameRows, RowIds, PolledIds
  <2>2. StackInv'
    BY <1>3, <1>4, <2>1, StackKept DEF IInv, StackInv
  <2>3. OtherTypes'
    BY <1>3, <1>4 DEF IInv, OtherTypes, Faults
  <2>4. RowsAreDistinct' /\ ActedOnWhatWasClicked' /\ RowsInTransition'
    BY <1>3, <2>1 DEF IInv, RowsAreDistinct, ActedOnWhatWasClicked, RowsInTransition
  <2>5. RowFaultsNeedNestedRefresh'
    BY <1>4 DEF RowFaultsNeedNestedRefresh, Top
  <2>6. Unnested'
    BY <1>1, <1>3, <1>4 DEF IInv, Unnested
  <2> QED
    BY <2>2, <2>3, <2>4, <2>5, <2>6 DEF IInv
<1>5. CASE /\ ~(Top.op = "startStop" /\ Top.stale)
           /\ stack' = Replace([Top EXCEPT !.pc = "call"])
           /\ UNCHANGED fault
  <2> DEFINE f == [Top EXCEPT !.pc = "call"]
  <2>1. f \in Frames
    BY <1>2 DEF Frames
  <2>2. f.op = Top.op /\ f.stale = Top.stale /\ f.row = Top.row
    BY <1>2 DEF Frames
  <2>3. f.got = Top.got /\ f.todo = Top.todo
    BY <1>2 DEF Frames
  <2>4. stack' = Replace(f)
    BY <1>5
  <2> HIDE DEF f
  <2>5. FrameInv(f)
    BY <1>2, <1>5, <2>2, <2>3 DEF FrameInv
  <2> QED
    BY <1>1, <1>3, <1>5, <2>1, <2>2, <2>4, <2>5, StepKeeps DEF history
<1> QED
  BY <1>4, <1>5

LEMMA DescribePageKeeps ==
  ASSUME IInv, DescribePage
  PROVE  IInv'
<1>1. Running /\ stack # << >>
  BY DEF DescribePage, Describing, Running
<1>2. Top \in Frames /\ FrameInv(Top)
  BY <1>1, TopFacts
<1>3. PICK id \in Listed :
        stack' = Replace([Top EXCEPT !.todo = @ \ {id},
                            !.got = Append(@, [instanceId |-> id, instanceState |-> cloud[id]])])
  BY DEF DescribePage
<1> DEFINE row == [instanceId |-> id, instanceState |-> cloud[id]]
           got == Append(Top.got, row)
           f   == [Top EXCEPT !.todo = Top.todo \ {id}, !.got = got]
<1>4. Top.todo \in SUBSET InstanceIds /\ Top.got \in Seq(Rows)
  BY <1>2 DEF Frames
<1>5. id \in Top.todo /\ id \in InstanceIds /\ cloud[id] \in LiveStates
  BY <1>4 DEF Listed, IInv, OtherTypes
<1>6. row \in Rows /\ row.instanceId = id
  BY <1>5 DEF Rows
<1> HIDE DEF row
<1>7. /\ got \in Seq(Rows) /\ Len(got) = Len(Top.got) + 1
      /\ DOMAIN got = DOMAIN Top.got \cup {Len(Top.got) + 1}
      /\ \A k \in DOMAIN Top.got : got[k] = Top.got[k]
      /\ got[Len(Top.got) + 1] = row
  BY <1>4, <1>6, Pushed
<1>8. stack' = Replace(f)
  BY <1>3 DEF row
<1> HIDE DEF got
<1>9. f \in Frames
  BY <1>2, <1>4, <1>7 DEF Frames
<1>10. f.op = Top.op /\ f.stale = Top.stale /\ f.row = Top.row /\ f.pc = Top.pc
  BY <1>2 DEF Frames
<1>11. f.got = got /\ f.todo = Top.todo \ {id}
  BY <1>2 DEF Frames
<1> HIDE DEF f
<1>12. \A k \in DOMAIN Top.got : Top.got[k].instanceId # id
  BY <1>2, <1>5 DEF FrameInv
<1>13. \A i, j \in DOMAIN got : got[i].instanceId = got[j].instanceId => i = j
  BY <1>2, <1>6, <1>7, <1>12 DEF FrameInv
<1>14. \A i \in DOMAIN got : /\ got[i].instanceId \notin Top.todo \ {id}
                             /\ got[i].instanceId \in Top.todo \/ i \in DOMAIN Top.got
  BY <1>2, <1>5, <1>6, <1>7 DEF FrameInv
<1>15. FrameInv(f)
  BY <1>2, <1>7, <1>10, <1>11, <1>13, <1>14 DEF FrameInv
<1> QED
  BY <1>1, <1>8, <1>9, <1>10, <1>15, StepKeeps DEF DescribePage

LEMMA DryRunAcceptedKeeps ==
  ASSUME IInv, DryRunAccepted
  PROVE  IInv'
<1>1. Running /\ stack # << >> /\ Top.op = "startStop" /\ Top.pc = "call"
  BY DEF DryRunAccepted, Calling, Running
<1>2. Top \in Frames /\ FrameInv(Top)
  BY <1>1, TopFacts
<1> DEFINE f == [Top EXCEPT !.pc = "real"]
<1>3. f \in Frames
  BY <1>2 DEF Frames
<1>4. f.op = Top.op /\ f.stale = Top.stale /\ f.row = Top.row
  BY <1>2 DEF Frames
<1>5. f.got = Top.got /\ f.todo = Top.todo
  BY <1>2 DEF Frames
<1>6. stack' = Replace(f)
  BY DEF DryRunAccepted
<1> HIDE DEF f
<1>7. FrameInv(f)
  BY <1>1, <1>2, <1>4, <1>5 DEF FrameInv
<1> QED
  BY <1>1, <1>3, <1>4, <1>6, <1>7, StepKeeps DEF DryRunAccepted

\* What a handler that returns keeps, whichever it is.
LEMMA ReturnKeeps ==
  ASSUME IInv, Running, StackInv', Len(stack') = Len(stack) - 1,
         cloud' \in [InstanceIds -> LiveStates \cup {Absent}],
         instances' \in Seq(Rows), marked' \subseteq InstanceIds, api' = "down",
         UNCHANGED << timer, dialog, fault, acted, nested, events >>,
         RowsAreDistinct', RowsInTransition',
         ~nested /\ dialog # NoDialog => /\ dialog.row \in DOMAIN instances'
                                         /\ instances'[dialog.row].instanceId = dialog.id
  PROVE  IInv'
<1> USE DEF IInv
<1>1. OtherTypes'
  BY DEF OtherTypes
<1>2. RowFaultsNeedNestedRefresh' /\ ActedOnWhatWasClicked'
  BY DEF RowFaultsNeedNestedRefresh, ActedOnWhatWasClicked, Running
<1>3. stack # << >> /\ Len(stack) \in Nat \ {0}
  BY TopFacts DEF Running
<1>4. ~nested => stack' = << >>
  <2> SUFFICES ASSUME ~nested PROVE stack' = << >>
    OBVIOUS
  <2>1. stack' \in Seq(Frames)
    BY DEF StackInv
  <2>2. Len(stack') = 0
    BY <1>3, <2>1 DEF Unnested
  <2> QED
    BY <2>1, <2>2, EmptySeq
<1>5. Unnested'
  BY <1>4 DEF Unnested, Running
<1> QED
  BY <1>1, <1>2, <1>5

LEMMA EcrListedKeeps ==
  ASSUME IInv, EcrListed
  PROVE  IInv'
<1>1. /\ Running /\ stack # << >> /\ Top.op = "ecr" /\ stack' = Pop /\ api' = "down"
      /\ UNCHANGED << cloud, instances, timer, dialog, resets, fault, acted, marked, nested, events >>
  BY DEF EcrListed, Running, history
<1>2. SameRows /\ PolledIds' = PolledIds
  BY <1>1 DEF SameRows, RowIds, PolledIds
<1>3. resets' = resets - (IF Describes(Top) THEN 1 ELSE 0)
  BY <1>1, ResetsTyped DEF Describes, IInv
<1>4. StackInv' /\ Len(stack') = Len(stack) - 1
  BY <1>1, <1>2, <1>3, StackPopped DEF IInv
<1>5. /\ RowsAreDistinct' /\ RowsInTransition'
      /\ instances' \in Seq(Rows) /\ marked' \subseteq InstanceIds
      /\ cloud' \in [InstanceIds -> LiveStates \cup {Absent}]
  BY <1>1, <1>2 DEF IInv, OtherTypes, RowsAreDistinct, RowsInTransition
<1>6. ~nested /\ dialog # NoDialog => /\ dialog.row \in DOMAIN instances'
                                      /\ instances'[dialog.row].instanceId = dialog.id
  BY <1>1 DEF IInv, Unnested
<1> QED
  BY <1>1, <1>4, <1>5, <1>6, ReturnKeeps

LEMMA StartStopReturnsKeeps ==
  ASSUME IInv, Running, Top.op = "startStop", Top.pc # "auth", StartStopReturns,
         cloud' \in [InstanceIds -> LiveStates \cup {Absent}]
  PROVE  IInv'
<1>1. stack # << >> /\ FrameInv(Top)
  BY TopFacts DEF Running
<1>2. /\ Mark(Top.row) /\ stack' = Pop /\ api' = "down"
      /\ UNCHANGED << timer, dialog, resets, fault, acted, nested, events >>
  BY DEF StartStopReturns
<1>3. Top.row \in DOMAIN instances
  BY <1>1 DEF FrameInv
<1> DEFINE n == Top.row
<1>4. /\ instances' \in Seq(Rows) /\ marked' \subseteq InstanceIds
      /\ SameRows /\ RowsAreDistinct'
      /\ \A j \in DOMAIN instances : instances'[j].instanceId = instances[j].instanceId
      /\ PolledIds' \subseteq PolledIds \cup {instances[n].instanceId}
      /\ marked' = marked \cup {instances[n].instanceId}
  BY <1>2, <1>3, MarkFacts
<1>5. resets' = resets - (IF Describes(Top) THEN 1 ELSE 0)
  BY <1>2, ResetsTyped DEF Describes, IInv
<1>6. StackInv' /\ Len(stack') = Len(stack) - 1
  BY <1>1, <1>2, <1>4, <1>5, StackPopped DEF IInv
<1>7. RowsInTransition'
  BY <1>2, <1>4 DEF IInv, RowsInTransition
<1>8. ~nested /\ dialog # NoDialog => /\ dialog.row \in DOMAIN instances'
                                      /\ instances'[dialog.row].instanceId = dialog.id
  BY <1>4 DEF IInv, Unnested, SameRows
<1> QED
  BY <1>2, <1>4, <1>6, <1>7, <1>8, ReturnKeeps

\* The states that updateTimer has received are put into the rows they belong to.
LEMMA ApplyUpdateKeeps ==
  ASSUME IInv, Running, Top.op = "updateTimer", ApplyUpdate,
         UNCHANGED << cloud, timer, dialog, acted, nested, events >>
  PROVE  IInv'
<1> DEFINE got == Top.got
           found == \A k \in DOMAIN got : got[k].instanceId \in RowIds
<1>1. stack # << >> /\ FrameInv(Top) /\ Top \in Frames
  BY TopFacts DEF Running
<1>2. got \in Seq(Rows)
  BY <1>1 DEF Frames
<1>3. CASE ~found
  <2>1. /\ fault' = "row_not_found" /\ api' = "down"
        /\ UNCHANGED << instances, marked, resets, stack >>
    BY <1>3 DEF ApplyUpdate
  <2>2. Top.stale
    BY <1>1, <1>3 DEF FrameInv
  <2>3. SameRows /\ PolledIds' = PolledIds
    BY <2>1 DEF SameRows, RowIds, PolledIds
  <2>4. StackInv'
    BY <2>1, <2>3, StackKept DEF IInv
  <2>5. OtherTypes'
    BY <2>1 DEF IInv, OtherTypes, Faults
  <2>6. RowsAreDistinct' /\ ActedOnWhatWasClicked' /\ RowsInTransition'
    BY <2>1, <2>3 DEF IInv, RowsAreDistinct, ActedOnWhatWasClicked, RowsInTransition
  <2>7. RowFaultsNeedNestedRefresh'
    BY <2>1, <2>2 DEF RowFaultsNeedNestedRefresh, Top
  <2>8. Unnested'
    BY <1>1, <2>2 DEF IInv, Unnested
  <2> QED
    BY <2>4, <2>5, <2>6, <2>7, <2>8 DEF IInv
<1>4. CASE found
  <2> DEFINE Owned(i)  == \E k \in DOMAIN got : RowOf(got[k].instanceId) = i
             chosen(i) == CHOOSE r \in {got[k] : k \in DOMAIN got} : RowOf(r.instanceId) = i
             row(i)    == IF Owned(i)
                          THEN [instances[i] EXCEPT !.instanceState = chosen(i).instanceState]
                          ELSE instances[i]
  <2>1. /\ instances' = [i \in DOMAIN instances |-> row(i)]
        /\ marked' = marked \ {got[k].instanceId : k \in DOMAIN got}
        /\ resets' = resets - 1 /\ stack' = Pop /\ api' = "down" /\ fault' = fault
    BY <1>4 DEF ApplyUpdate
  <2>2. \A i \in DOMAIN instances : row(i) \in Rows /\ row(i).instanceId = instances[i].instanceId
    <3> SUFFICES ASSUME NEW i \in DOMAIN instances
                 PROVE  row(i) \in Rows /\ row(i).instanceId = instances[i].instanceId
      OBVIOUS
    <3>1. instances[i] \in Rows
      BY DEF IInv, OtherTypes
    <3>2. ASSUME Owned(i) PROVE chosen(i).instanceState \in LiveStates
      <4>1. \E r \in {got[k] : k \in DOMAIN got} : RowOf(r.instanceId) = i
        BY <3>2
      <4>2. chosen(i) \in {got[k] : k \in DOMAIN got}
        BY <4>1
      <4>3. \A k \in DOMAIN got : got[k] \in Rows
        BY <1>2
      <4> HIDE DEF chosen, got
      <4>4. chosen(i) \in Rows
        BY <4>2, <4>3
      <4> QED
        BY <4>4 DEF Rows
    <3> HIDE DEF Owned, chosen
    <3> QED
      BY <3>1, <3>2 DEF Rows
  <2> HIDE DEF row
  <2>3. instances' \in Seq(Rows) /\ DOMAIN instances' = DOMAIN instances
    <3>1. instances \in Seq(Rows)
      BY DEF IInv, OtherTypes
    <3> QED
      BY <2>1, <2>2, <3>1
  <2>4. \A i \in DOMAIN instances : instances'[i].instanceId = instances[i].instanceId
    BY <2>1, <2>2
  <2>5. SameRows
    BY <2>3, <2>4 DEF SameRows, RowIds
  <2>6. RowsAreDistinct'
    BY <2>3, <2>4 DEF IInv, RowsAreDistinct
  <2>7. marked' \subseteq InstanceIds
    BY <2>1 DEF IInv, OtherTypes
  <2>8. StackInv' /\ Len(stack') = Len(stack) - 1
    <3>1. resets' = resets - (IF Describes(Top) THEN 1 ELSE 0)
      BY <2>1 DEF Describes
    <3> QED
      BY <1>1, <2>1, <2>5, <3>1, StackPopped DEF IInv
  <2>9. RowsInTransition'
    BY <1>1 DEF IInv, RowsInTransition, Unnested, Describes
  <2>10. ~nested /\ dialog # NoDialog => /\ dialog.row \in DOMAIN instances'
                                         /\ instances'[dialog.row].instanceId = dialog.id
    BY <2>3, <2>4 DEF IInv, Unnested
  <2>11. cloud' \in [InstanceIds -> LiveStates \cup {Absent}]
    BY DEF IInv, OtherTypes
  <2> QED
    BY <2>1, <2>3, <2>6, <2>7, <2>8, <2>9, <2>10, <2>11, ReturnKeeps
<1> QED
  BY <1>3, <1>4

\* A refresh replaces the rows by distinct ones.
LEMMA ApplyRefreshKeeps ==
  ASSUME IInv, Running, Top.op = "refresh", ApplyRefresh,
         UNCHANGED << cloud, timer, dialog, acted, nested, events >>
  PROVE  IInv'
<1>1. stack # << >> /\ FrameInv(Top) /\ Top \in Frames
  BY TopFacts DEF Running
<1>2. /\ instances' = Top.got /\ marked' = {} /\ resets' = resets - 1
      /\ stack' = [k \in DOMAIN Pop |-> Outdated(Pop[k])]
      /\ api' = "down" /\ fault' = fault
  BY DEF ApplyRefresh, Outdated
<1>3. instances' \in Seq(Rows) /\ RowsAreDistinct'
  BY <1>1, <1>2 DEF Frames, FrameInv, RowsAreDistinct
<1>4. resets' = resets - (IF Describes(Top) THEN 1 ELSE 0)
  BY <1>2 DEF Describes
<1>5. StackInv' /\ Len(stack') = Len(stack) - 1
  BY <1>1, <1>2, <1>4, StackOutdated DEF IInv
<1>6. RowsInTransition'
  BY <1>1 DEF IInv, RowsInTransition, Unnested, Describes
<1>7. ~nested => dialog = NoDialog
  BY <1>1 DEF IInv, Unnested
<1>8. marked' \subseteq InstanceIds /\ cloud' \in [InstanceIds -> LiveStates \cup {Absent}]
  BY <1>2 DEF IInv, OtherTypes
<1> QED
  BY <1>2, <1>3, <1>5, <1>6, <1>7, <1>8, ReturnKeeps

LEMMA DescribeReturnKeeps ==
  ASSUME IInv, Describing, Return
  PROVE  IInv'
BY ApplyUpdateKeeps, ApplyRefreshKeeps DEF Describing, Return

-----------------------------------------------------------------------------
(***************************************************************************)
(* The answers to startInstance and stopInstance, and EC2 itself.          *)
(***************************************************************************)
LEMMA AnswerKeeps ==
  ASSUME IInv, StartStopFails \/ StartInstances \/ StopInstances
  PROVE  IInv'
<1>1. Running /\ Top.op = "startStop" /\ Top.pc # "auth" /\ StartStopReturns
  BY DEF StartStopFails, StartInstances, StopInstances, Calling
<1>2. cloud \in [InstanceIds -> LiveStates \cup {Absent}]
  BY DEF IInv, OtherTypes
<1>3. cloud' \in [InstanceIds -> LiveStates \cup {Absent}]
  <2>1. CASE StartStopFails
    BY <1>2, <2>1 DEF StartStopFails
  <2>2. CASE StartInstances
    BY <1>2, <2>2 DEF StartInstances, LiveStates
  <2>3. CASE StopInstances
    BY <1>2, <2>3 DEF StopInstances, LiveStates
  <2> QED
    BY <2>1, <2>2, <2>3
<1> QED
  BY <1>1, <1>3, StartStopReturnsKeeps

LEMMA CloudKeeps ==
  ASSUME IInv, NEW id \in InstanceIds, CloudSettles(id) \/ CloudChanges(id)
  PROVE  IInv'
<1>1. UNCHANGED << instances, timer, dialog, stack, api, resets, fault, acted, marked, nested >>
  BY DEF CloudSettles, CloudChanges, history
<1>2. events' \in 0 .. MaxEvents
  BY EventTyped DEF CloudSettles, CloudChanges, IInv, OtherTypes
<1>3. \E s \in LiveStates \cup {Absent} : cloud' = [cloud EXCEPT ![id] = s]
  <2>1. CASE CloudSettles(id)
    <3>1. PICK m \in SettlingMoves : cloud' = [cloud EXCEPT ![id] = m[2]]
      BY <2>1 DEF CloudSettles
    <3>2. m[2] \in LiveStates
      BY DEF SettlingMoves, LiveStates
    <3> QED
      BY <3>1, <3>2
  <2>2. CASE CloudChanges(id)
    <3>1. PICK m \in ForeignMoves : cloud' = [cloud EXCEPT ![id] = m[2]]
      BY <2>2 DEF CloudChanges
    <3>2. m[2] \in LiveStates \cup {Absent}
      BY DEF ForeignMoves, LiveStates
    <3> QED
      BY <3>1, <3>2
  <2> QED
    BY <2>1, <2>2
<1>4. OtherTypes'
  BY <1>1, <1>2, <1>3 DEF IInv, OtherTypes
<1>5. SameRows /\ PolledIds' = PolledIds
  BY <1>1 DEF SameRows, RowIds, PolledIds
<1>6. StackInv'
  BY <1>1, <1>5, StackKept DEF IInv, StackInv
<1>7. /\ RowsAreDistinct' /\ RowFaultsNeedNestedRefresh'
      /\ ActedOnWhatWasClicked' /\ RowsInTransition'
  BY <1>1, <1>5 DEF IInv, RowsAreDistinct, RowFaultsNeedNestedRefresh,
                    ActedOnWhatWasClicked, RowsInTransition, Top
<1>8. Unnested'
  BY <1>1 DEF IInv, Unnested, Top
<1> QED
  BY <1>4, <1>6, <1>7, <1>8 DEF IInv

-----------------------------------------------------------------------------
(***************************************************************************)
(* The invariant, and what follows from it.                                *)
(***************************************************************************)
LEMMA InitIInv == Init => IInv
<1> SUFFICES ASSUME Init PROVE IInv
  OBVIOUS
<1>1. /\ instances = << >> /\ stack = << >> /\ dialog = NoDialog /\ fault = "none"
      /\ api = "down" /\ resets = 0 /\ acted = {} /\ marked = {} /\ timer = FALSE
      /\ nested = FALSE /\ events = 0
  BY DEF Init
<1>2. OtherTypes
  <2>1. cloud \in [InstanceIds -> LiveStates \cup {Absent}]
    BY DEF Init, LiveStates
  <2>2. instances \in Seq(Rows) /\ events \in 0 .. MaxEvents
    BY <1>1, EventsAssumption
  <2>3. acted \subseteq InstanceIds \X InstanceIds /\ marked \subseteq InstanceIds
    BY <1>1
  <2> QED
    BY <1>1, <2>1, <2>2, <2>3 DEF OtherTypes, Faults
<1>3. StackInv
  <2>1. Resetting(stack) = {}
    BY <1>1 DEF Resetting
  <2> QED
    BY <1>1, <2>1, FS_EmptySet, DepthAssumption DEF StackInv, FramesInv, OthersWait
<1>4. RowsAreDistinct /\ PolledIds = {}
  BY <1>1 DEF RowsAreDistinct, PolledIds
<1> QED
  BY <1>1, <1>2, <1>3, <1>4 DEF IInv, RowFaultsNeedNestedRefresh, Unnested,
     ActedOnWhatWasClicked, RowsInTransition

LEMMA StutterKeeps ==
  ASSUME IInv, UNCHANGED vars
  PROVE  IInv'
<1> USE DEF vars
<1>1. OtherTypes'
  BY DEF IInv, OtherTypes
<1>2. SameRows /\ PolledIds' = PolledIds
  BY DEF SameRows, RowIds, PolledIds
<1>3. StackInv'
  BY <1>2, StackKept DEF IInv, StackInv
<1>4. /\ RowsAreDistinct' /\ RowFaultsNeedNestedRefresh'
      /\ ActedOnWhatWasClicked' /\ RowsInTransition'
  BY <1>2 DEF IInv, RowsAreDistinct, RowFaultsNeedNestedRefresh,
              ActedOnWhatWasClicked, RowsInTransition, Top
<1>5. Unnested'
  BY DEF IInv, Unnested, Top
<1> QED
  BY <1>1, <1>3, <1>4, <1>5 DEF IInv

LEMMA NextIInv == IInv /\ [Next]_vars => IInv'
<1> SUFFICES ASSUME IInv, [Next]_vars PROVE IInv'
  OBVIOUS
<1>1. CASE UpdateTimer
  BY <1>1, UpdateTimerKeeps
<1>2. CASE BtnRefreshInstancesClick
  BY <1>2, RefreshKeeps
<1>3. CASE \E i \in DOMAIN instances : StartStopClick(i)
  BY <1>3, StartStopClickKeeps
<1>4. CASE DialogNo
  BY <1>4, DialogNoKeeps
<1>5. CASE BtnStartStopClick
  BY <1>5, BtnStartStopKeeps
<1>6. CASE BtnRefreshEcrClick
  BY <1>6, RefreshEcrKeeps
<1>7. CASE PushDockerImage
  BY <1>7, PushKeeps
<1>8. CASE CredentialsReady
  BY <1>8, CredentialsReadyKeeps
<1>9. CASE DescribePage
  BY <1>9, DescribePageKeeps
<1>10. CASE DescribeEnds \/ DescribeFails
  BY <1>10, DescribeReturnKeeps DEF DescribeEnds, DescribeFails
<1>11. CASE EcrListed
  BY <1>11, EcrListedKeeps
<1>12. CASE DryRunAccepted
  BY <1>12, DryRunAcceptedKeeps
<1>13. CASE StartStopFails \/ StartInstances \/ StopInstances
  BY <1>13, AnswerKeeps
<1>14. CASE \E id \in InstanceIds : CloudSettles(id) \/ CloudChanges(id)
  BY <1>14, CloudKeeps
<1>15. CASE UNCHANGED vars
  BY <1>15, StutterKeeps
<1> QED
  BY <1>1, <1>2, <1>3, <1>4, <1>5, <1>6, <1>7, <1>8, <1>9, <1>10, <1>11, <1>12,
     <1>13, <1>14, <1>15 DEF Next

\* The invariant holds of every session, with whatever credentials.
THEOREM Invariance == Spec => []IInv
BY InitIInv, NextIInv, PTL DEF Spec

\* The table, the handlers and the SDK keep their shape: no more than MaxDepth
\* handlers, and never an endResetModel without its beginResetModel.
THEOREM TypeCorrect == Spec => []TypeOK
<1>1. IInv => TypeOK
  BY TypeFromParts DEF IInv
<1> QED
  BY <1>1, Invariance, PTL

\* When no handler is active the SDK is shut down and no reset of the model is
\* open, however the handlers of the EC2 table, the ECR list and the push of an
\* image were nested.
THEOREM IdleProgramsAreClean == Spec => []IdleIsClean
<1>1. IInv => IdleIsClean
  <2> SUFFICES ASSUME IInv, stack = << >> PROVE api = "down" /\ resets = 0
    BY DEF IdleIsClean
  <2>1. Resetting(stack) = {}
    BY DEF Resetting
  <2> QED
    BY <2>1, FS_EmptySet DEF IInv, StackInv
<1> QED
  BY <1>1, Invariance, PTL

\* No instance is listed twice, whatever pages EC2 sends and whatever nests.
THEOREM TablesAreDistinct == Spec => []RowsAreDistinct
<1>1. IInv => RowsAreDistinct
  BY DEF IInv
<1> QED
  BY <1>1, Invariance, PTL

\* Nothing goes wrong unless a handler was entered inside another one: with
\* static credentials no row is missing and no call is made on an SDK that is
\* shut down.
THEOREM FaultsAreOfNesting == Spec => []FaultsNeedNesting
<1>1. IInv => FaultsNeedNesting
  BY DEF IInv, Unnested, FaultsNeedNesting
<1> QED
  BY <1>1, Invariance, PTL

\* And rows are missing only under a handler whose table a refresh has replaced.
THEOREM RowFaultsAreOfRefreshes == Spec => []RowFaultsNeedNestedRefresh
<1>1. IInv => RowFaultsNeedNestedRefresh
  BY DEF IInv
<1> QED
  BY <1>1, Invariance, PTL

\* With static credentials the instance started or stopped is the one whose
\* button was clicked.
THEOREM ClicksAreObeyed == Spec => []ActedOnWhatWasClicked
<1>1. IInv => ActedOnWhatWasClicked
  BY DEF IInv
<1> QED
  BY <1>1, Invariance, PTL

\* With static credentials a row that says "Loading" is polled, was marked by
\* hand, or belongs to an instance that is shutting down or terminated.
THEOREM TransitionsArePolled == Spec => []TransitionalIsPolled
<1>1. IInv => TransitionalIsPolled
  <2> SUFFICES ASSUME IInv, ~nested, NEW i \in DOMAIN instances,
                      ShownAsLoading(instances[i].instanceState)
               PROVE  \/ timer /\ instances[i].instanceId \in PolledIds
                      \/ instances[i].instanceId \in marked
                      \/ instances[i].instanceState \in {"shutting-down", "terminated"}
    BY DEF TransitionalIsPolled
  <2>1. instances[i] \in Rows
    BY ElementOfSeq, LenProperties DEF IInv, OtherTypes
  <2>2. \/ Transitional(instances[i].instanceState)
        \/ instances[i].instanceState \in {"shutting-down", "terminated"}
    BY <2>1 DEF Rows, LiveStates, ShownAsLoading, Transitional
  <2>3. Transitional(instances[i].instanceState) => instances[i].instanceId \in PolledIds
    BY DEF PolledIds
  <2>4. \A id \in PolledIds : timer \/ id \in marked
    BY DEF IInv, RowsInTransition
  <2> QED
    BY <2>2, <2>3, <2>4
<1> QED
  BY <1>1, Invariance, PTL
=============================================================================
