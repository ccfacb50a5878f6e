------------------------- MODULE HalLifecycleProofs -------------------------
(***************************************************************************)
(* The safety properties of HalLifecycle for any number of components,     *)
(* HALs, control planes and messages.  Each is proved from those of the    *)
(* four assumptions on the application and the control plane it needs.     *)
(***************************************************************************)
EXTENDS HalLifecycle, Integers, TLAPS

\* One component after the other, each rid of its HAL before it goes.
OneAtATime == InitializeOnce /\ HalClosedFirst

\* How the tests of the repository use the component.
Discipline == OneAtATime /\ OpenOnce /\ QuietClose

\* The types, with what makes them inductive: who enqueues knows a HAL,
\* and the thread of a control plane knows a component.
Typed ==
  /\ TypeOK
  /\ app.at \in Closing => app.hal \in Hals
  /\ \A c \in Cps :
       /\ cp[c].at = "enqueue" => cp[c].session \in Hals
       /\ cp[c].at \in {"idle", "enqueue"} => cp[c].vc \in Vcs

\* The component the global points to is the only live one, and it loses its
\* HAL before it is freed.
ComponentInv ==
  \A v \in Vcs :
    /\ vcMem[v] = "live" <=> gvcHdmiCec = v
    /\ vcMem[v] # "live" => cec_hal[v] = NULL

\* What the application's thread knows inside a call.
AppInv ==
  /\ app.at # "idle" => gvcHdmiCec # NULL
  /\ app.at \in {"publish", "cpExit"} \cup VcClosing => OpenHal = NULL
  /\ app.at \in {"ready"} \cup Closing => app.hal # NULL /\ OpenHal = app.hal
  /\ app.at = "publish" => app.hal # NULL
  /\ app.at \in Opening => state[app.hal] = "CLOSED"
  /\ app.at \in Closing => state[app.hal] = "READY"
  /\ app.at \in {"free", "clear"} => handler[app.hal] = "done"
  /\ app.at # "overflow"

\* A HAL is live exactly as long as the global leads to it, but for the ends
\* of HdmiCecOpen and HdmiCecClose, and its thread lives within that time.
HalInv ==
  \A h \in Hals :
    /\ halMem[h] = "live" <=> \/ OpenHal = h /\ app.at # "clear"
                              \/ app.at = "publish" /\ app.hal = h
    /\ handler[h] = "none" <=> halMem[h] = "unused"
    /\ halMem[h] = "freed" => handler[h] = "done"
    /\ halMem[h] = "unused" => state[h] = "CLOSED"
    /\ handler[h] = "done" /\ halMem[h] = "live" => app.at \in Closing
    /\ OpenHal = h => state[h] = "READY" \/ app.at = "ready"

\* Only TeardownHal asks a handler thread to end.
ExitInv ==
  \A h \in Hals : \A i \in 1 .. Len(backlog[h]) :
    backlog[h][i].type = "EXIT_REQUESTED" =>
      handler[h] = "done" \/ (app.at = "join" /\ app.hal = h)

\* How long components, HALs and their threads live: one after the other.
LifeInv == ComponentInv /\ AppInv /\ HalInv /\ ExitInv

\* A control plane that is past the check of ProcessMsg still finds the HAL it
\* has checked, and every message is queued in the HAL it was meant for.
SessionInv ==
  /\ \A c \in Cps : cp[c].at = "enqueue" =>
       cec_hal[cp[c].vc] = cp[c].session /\ app.at \notin Closing
  /\ app.at = "publish" => gvcHdmiCec # NULL /\ cec_hal[gvcHdmiCec] = NULL
  /\ MessagesOfThisSession

\* Only a HAL that became ready is sent messages.
ReadyInv ==
  /\ \A h \in Hals :
       backlog[h] # <<>> \/ handler[h] = "callback" => state[h] = "READY"
  /\ \A c \in Cps : cp[c].at = "enqueue" => state[cp[c].session] = "READY"

\* A component gets a control plane when its profile is read, and a control
\* plane that runs belongs to the component the global points to.
CpInv ==
  /\ \A v \in Vcs : /\ ~profile[v] => cp_instance[v] = NULL
                    /\ vcMem[v] = "unused" => ~profile[v]
  /\ \A c \in Cps : cp[c].at \in {"idle", "enqueue"} =>
       cp[c].vc = gvcHdmiCec /\ cp_instance[gvcHdmiCec] = c

------------------------------------------------------------------------------
\* Types

\* What the assumption says of the identities and the bounds.
LEMMA Parameters ==
  /\ NULL \notin Vcs /\ NULL \notin Hals /\ NULL \notin Cps
  /\ MAX_QUEUE_SIZE \in Nat \ {0} /\ MaxPosts \in Nat /\ MaxFrames \in Nat \ {0}
BY Zenon, LifecycleAssumption

\* A queue keeps its elements and its bound.
LEMMA EnqueuedFits ==
  ASSUME NEW S, NEW q \in Seq(S), Len(q) <= MAX_QUEUE_SIZE, NEW m \in S
  PROVE  Enqueued(q, m) \in Seq(S) /\ Len(Enqueued(q, m)) <= MAX_QUEUE_SIZE
BY Parameters DEF Enqueued

\* So does what is left of it.
LEMMA TailFits ==
  ASSUME NEW S, NEW q \in Seq(S), Len(q) <= MAX_QUEUE_SIZE, q # <<>>
  PROVE  /\ Tail(q) \in Seq(S) /\ Len(Tail(q)) <= MAX_QUEUE_SIZE
         /\ Head(q) \in S
BY Parameters

\* The records the application's thread passes through.
LEMMA AppRecords ==
  /\ Idle \in AppRecord /\ Idle.at = "idle"
  /\ \A at \in {"cpExit", "overflow", "vcClose", "deinitClose"} :
       \A n \in 0 .. MaxFrames :
         Inside(at, NULL, n) \in AppRecord /\ Inside(at, NULL, n).at = at
  /\ \A at \in {"publish", "ready", "exit", "join", "free", "clear"} :
       \A h \in Hals \cup {NULL} :
         /\ Inside(at, h, 0) \in AppRecord
         /\ Inside(at, h, 0).at = at /\ Inside(at, h, 0).hal = h
<1>1. /\ \A at \in {"idle", "cpExit", "overflow", "publish", "ready", "exit",
                    "join", "free", "clear", "vcClose", "deinitClose"} :
           at \in AppState
      /\ 0 \in 0 .. MaxFrames
  BY Parameters DEF AppState, Opening, Closing, VcClosing
<1> QED
  BY <1>1 DEF AppRecord, Inside, Idle

\* What a record of the application's thread holds.
LEMMA AppFields ==
  ASSUME NEW r \in AppRecord
  PROVE  r.hal \in Hals \cup {NULL} /\ r.frames \in 0 .. MaxFrames
BY DEF AppRecord

\* The records of a control plane.
LEMMA CpRecords ==
  /\ NoCp \in CpRecord /\ NoCp.at = "none"
  /\ \A v \in Vcs : /\ Doing("idle", v, "STATE", NULL) \in CpRecord
                    /\ Doing("idle", v, "STATE", NULL).at = "idle"
                    /\ Doing("idle", v, "STATE", NULL).vc = v
  /\ \A v \in Vcs, t \in {"COMMAND", "STATE"}, h \in Hals :
       /\ Doing("enqueue", v, t, h) \in CpRecord
       /\ Doing("enqueue", v, t, h).at = "enqueue"
       /\ Doing("enqueue", v, t, h).vc = v
       /\ Doing("enqueue", v, t, h).type = t
       /\ Doing("enqueue", v, t, h).session = h
BY DEF CpRecord, CpState, Doing, NoCp

\* What a record of a control plane holds.
LEMMA CpFields ==
  ASSUME NEW r \in CpRecord
  PROVE  /\ r.vc \in Vcs \cup {NULL} /\ r.type \in {"COMMAND", "STATE"}
         /\ r.session \in Hals \cup {NULL}
BY DEF CpRecord

\* A control plane that goes on to another place, and nothing else.
LEMMA CpMoves ==
  ASSUME NEW r \in CpRecord, NEW at \in {"idle", "stopped"}
  PROVE  /\ [r EXCEPT !.at = at] \in CpRecord
         /\ [r EXCEPT !.at = at].at = at
         /\ [r EXCEPT !.at = at].vc = r.vc
         /\ [r EXCEPT !.at = at].session = r.session
BY DEF CpRecord, CpState

LEMMA TypedInit == Init => Typed
<1> SUFFICES ASSUME Init PROVE Typed
  OBVIOUS
<1>1. app \in AppRecord /\ app.at = "idle" /\ cp \in [Cps -> CpRecord]
      /\ \A c \in Cps : cp[c].at = "none"
  BY AppRecords, CpRecords DEF Init
<1> QED
  BY <1>1, Parameters DEF Init, Typed, TypeOK, Memory, HandlerState, Closing

LEMMA TypedStep == Typed /\ [Next]_vars => Typed'
<1> SUFFICES ASSUME Typed, [Next]_vars PROVE Typed'
  OBVIOUS
<1>0. /\ app \in AppRecord /\ app.hal \in Hals \cup {NULL}
      /\ app.frames \in 0 .. MaxFrames
      /\ OpenHal \in Hals \cup {NULL}
  BY AppFields DEF Typed, TypeOK, OpenHal
<1>1. ASSUME NEW v \in Vcs, vcHdmiCec_Initialize(v) PROVE Typed'
  BY <1>1 DEF vcHdmiCec_Initialize, halVars, cpVars, Typed, TypeOK, Memory
<1>2. ASSUME NEW v \in Vcs, NEW enable \in BOOLEAN, vcHdmiCec_Open(v, enable)
      PROVE  Typed'
  <2> DEFINE r == Doing("idle", v, "STATE", NULL)
  <2>0. \/ UNCHANGED <<cp, cp_instance>>
        \/ \E c \in Cps : /\ cp' = [cp EXCEPT ![c] = r]
                          /\ cp_instance' = [cp_instance EXCEPT ![v] = c]
    BY <1>2 DEF vcHdmiCec_Open
  <2>r. r \in CpRecord /\ r.at = "idle" /\ r.vc \in Vcs
    BY CpRecords
  <2> HIDE DEF r
  <2>1. cp' \in [Cps -> CpRecord] /\ cp_instance' \in [Vcs -> Cps \cup {NULL}]
    BY <2>0, <2>r DEF Typed, TypeOK
  <2>2. \A c \in Cps :
          /\ cp'[c].at = "enqueue" => cp'[c].session \in Hals
          /\ cp'[c].at \in {"idle", "enqueue"} => cp'[c].vc \in Vcs
    BY <2>0, <2>r DEF Typed, TypeOK
  <2> QED
    BY <1>2, <2>1, <2>2 DEF vcHdmiCec_Open, halVars, Typed, TypeOK
<1>3. ASSUME NEW v \in Vcs, vcHdmiCec_Close(v) PROVE Typed'
  <2>1. app' \in AppRecord /\ app'.at = "vcClose"
    BY <1>3, AppRecords, Parameters DEF vcHdmiCec_Close
  <2> QED
    BY <1>3, <2>1 DEF vcHdmiCec_Close, vcVars, halVars, cpVars, Typed, TypeOK,
                      Closing
<1>4. ASSUME NEW v \in Vcs, vcHdmiCec_Deinitialize(v) PROVE Typed'
  <2>1. app' \in AppRecord /\ app'.at \in {"deinitClose", "cpExit"}
    BY <1>4, AppRecords, Parameters DEF vcHdmiCec_Deinitialize
  <2> QED
    BY <1>4, <2>1 DEF vcHdmiCec_Deinitialize, vcVars, halVars, cpVars, Typed,
                      TypeOK, Closing
<1>5. ASSUME NEW h \in Hals, HdmiCecOpen(h) PROVE Typed'
  <2>1. app' \in AppRecord /\ app'.at = "publish"
    BY <1>5, AppRecords DEF HdmiCecOpen
  <2> QED
    BY <1>5, <2>1 DEF HdmiCecOpen, vcVars, cpVars, Typed, TypeOK, Closing, Memory,
                      HandlerState
<1>6. CASE HdmiCecClose
  <2>1. app' \in AppRecord /\ app'.hal = OpenHal /\ OpenHal \in Hals
    BY <1>6, <1>0, AppRecords DEF HdmiCecClose
  <2> QED
    BY <1>6, <2>1 DEF HdmiCecClose, vcVars, halVars, cpVars, Typed, TypeOK
<1>7. CASE vcCloseBody
  <2>1. app' \in AppRecord /\ app'.at \notin Closing
    <3>1. CASE HalIsOpen(gvcHdmiCec) /\ app.frames < MaxFrames
      <4>1. app.frames + 1 \in 0 .. MaxFrames
        BY <3>1, <1>0, Parameters
      <4> QED
        BY <4>1, <3>1, <1>7, AppRecords DEF vcCloseBody, VcClosing, Closing
    <3>2. CASE HalIsOpen(gvcHdmiCec) /\ ~(app.frames < MaxFrames)
      BY <3>2, <1>7, <1>0, AppRecords DEF vcCloseBody, Closing
    <3>3. CASE ~HalIsOpen(gvcHdmiCec)
      <4>1. 0 \in 0 .. MaxFrames
        BY Parameters
      <4> QED
        BY <4>1, <3>3, <1>7, AppRecords DEF vcCloseBody, Closing
    <3> QED
      BY <3>1, <3>2, <3>3
  <2>2. bOpened' \in [Vcs -> BOOLEAN]
    BY <1>7 DEF vcCloseBody, Typed, TypeOK
  <2> QED
    BY <1>7, <2>1, <2>2 DEF vcCloseBody, halVars, cpVars, Typed, TypeOK
<1>8. CASE deinitializeEnd
  <2>1. app' \in AppRecord /\ app'.at \notin Closing
    BY <1>8, AppRecords DEF deinitializeEnd, Closing
  <2>2. /\ cp' \in [Cps -> CpRecord]
        /\ \A c \in Cps :
             /\ cp'[c].at = "enqueue" => cp'[c].session \in Hals
             /\ cp'[c].at \in {"idle", "enqueue"} => cp'[c].vc \in Vcs
    <3>1. CASE UNCHANGED cp
      BY <3>1 DEF Typed, TypeOK
    <3>2. ASSUME NEW c, StopsCp(c)
          PROVE  /\ cp' \in [Cps -> CpRecord]
                 /\ \A d \in Cps :
                      /\ cp'[d].at = "enqueue" => cp'[d].session \in Hals
                      /\ cp'[d].at \in {"idle", "enqueue"} => cp'[d].vc \in Vcs
      BY <3>2, CpMoves DEF StopsCp, Typed, TypeOK
    <3>3. cp_instance[gvcHdmiCec] = NULL => UNCHANGED cp
      BY <1>8 DEF deinitializeEnd
    <3>4. cp_instance[gvcHdmiCec] # NULL => StopsCp(cp_instance[gvcHdmiCec])
      BY <1>8 DEF deinitializeEnd
    <3> QED
      BY <3>1, <3>2, <3>3, <3>4
  <2> QED
    BY <1>8, <2>1, <2>2 DEF deinitializeEnd, halVars, Typed, TypeOK, Memory
<1>9. CASE openPublish
  <2>1. app' \in AppRecord /\ app'.at = "ready"
    BY <1>9, <1>0, AppRecords DEF openPublish
  <2> QED
    BY <1>9, <1>0, <2>1 DEF openPublish, halVars, cpVars, Typed, TypeOK, Closing
<1>10. CASE openReady
  <2>1. app' \in AppRecord /\ app'.at = "idle"
    BY <1>10, AppRecords DEF openReady
  <2> QED
    BY <1>10, <2>1 DEF openReady, vcVars, cpVars, Typed, TypeOK, Closing
<1>11. CASE teardownExit
  <2>1. app' \in AppRecord /\ app'.hal = app.hal /\ app.hal \in Hals
    BY <1>11, <1>0, AppRecords DEF teardownExit, Calling, Typed, Closing
  <2>2. Exit(app.hal) \in Message
    BY <2>1 DEF Exit, Message
  <2>3. /\ backlog' \in [Hals -> Seq(Message)]
        /\ \A h \in Hals : Len(backlog'[h]) <= MAX_QUEUE_SIZE
    BY <1>11, <2>1, <2>2, EnqueuedFits DEF teardownExit, Typed, TypeOK
  <2> QED
    BY <1>11, <2>1, <2>3 DEF teardownExit, vcVars, cpVars, Typed, TypeOK
<1>12. CASE teardownJoin
  <2>1. app' \in AppRecord /\ app'.hal = app.hal /\ app.hal \in Hals
    BY <1>12, <1>0, AppRecords DEF teardownJoin, Calling, Typed, Closing
  <2> QED
    BY <1>12, <2>1 DEF teardownJoin, vcVars, halVars, cpVars, Typed, TypeOK
<1>13. CASE teardownFree
  <2>1. app' \in AppRecord /\ app'.hal = app.hal /\ app.hal \in Hals
    BY <1>13, <1>0, AppRecords DEF teardownFree, Calling, Typed, Closing
  <2> QED
    BY <1>13, <2>1 DEF teardownFree, vcVars, cpVars, Typed, TypeOK, Memory
<1>14. CASE closeClear
  <2>1. app' \in AppRecord /\ app'.at = "idle"
    BY <1>14, AppRecords DEF closeClear
  <2> QED
    BY <1>14, <2>1 DEF closeClear, halVars, cpVars, Typed, TypeOK, Closing
<1>15. ASSUME NEW h \in Hals, messageHandler(h) PROVE Typed'
  <2>1. handler' \in [Hals -> HandlerState]
    BY <1>15 DEF messageHandler, Typed, TypeOK, HandlerState
  <2>2. /\ backlog' \in [Hals -> Seq(Message)]
        /\ \A g \in Hals : Len(backlog'[g]) <= MAX_QUEUE_SIZE
    <3>1. UNCHANGED backlog \/ backlog' = [backlog EXCEPT ![h] = Tail(backlog[h])]
      BY <1>15 DEF messageHandler
    <3>2. /\ Tail(backlog[h]) \in Seq(Message)
          /\ Len(Tail(backlog[h])) <= MAX_QUEUE_SIZE
      BY <1>15, TailFits DEF messageHandler, Typed, TypeOK
    <3> QED
      BY <3>1, <3>2 DEF Typed, TypeOK
  <2> QED
    BY <1>15, <2>1, <2>2 DEF messageHandler, vcVars, cpVars, Typed, TypeOK
<1>16. ASSUME NEW h \in Hals, rxCallback(h) PROVE Typed'
  BY <1>16 DEF rxCallback, vcVars, cpVars, Typed, TypeOK, HandlerState
<1>17. ASSUME NEW c \in Cps, processEnqueue(c) PROVE Typed'
  <2>1. /\ cp' \in [Cps -> CpRecord]
        /\ \A d \in Cps :
             /\ cp'[d].at = "enqueue" => cp'[d].session \in Hals
             /\ cp'[d].at \in {"idle", "enqueue"} => cp'[d].vc \in Vcs
    BY <1>17, CpMoves DEF processEnqueue, Typed, TypeOK
  <2>2. [type |-> cp[c].type, session |-> cp[c].session] \in Message
    BY <1>17, CpFields DEF processEnqueue, Typed, TypeOK, Message
  <2>3. /\ backlog' \in [Hals -> Seq(Message)]
        /\ \A g \in Hals : Len(backlog'[g]) <= MAX_QUEUE_SIZE
    <3> DEFINE m == [type |-> cp[c].type, session |-> cp[c].session]
               h == cec_hal[cp[c].vc]
    <3>1. \/ UNCHANGED backlog
          \/ backlog' = [backlog EXCEPT ![h] = Enqueued(backlog[h], m)]
      BY <1>17 DEF processEnqueue
    <3>2. m \in Message
      BY <2>2
    <3> HIDE DEF m, h
    <3> DEFINE S == Seq(Message)
    <3>3. \A g \in Hals : /\ Enqueued(backlog[g], m) \in S
                          /\ Len(Enqueued(backlog[g], m)) <= MAX_QUEUE_SIZE
      BY <3>2, EnqueuedFits DEF Typed, TypeOK
    <3>4. backlog \in [Hals -> S]
          /\ \A g \in Hals : Len(backlog[g]) <= MAX_QUEUE_SIZE
      BY DEF Typed, TypeOK
    <3> HIDE DEF S
    <3>5. /\ backlog' \in [Hals -> S]
          /\ \A g \in Hals : Len(backlog'[g]) <= MAX_QUEUE_SIZE
      BY <3>1, <3>3, <3>4
    <3> QED
      BY <3>5 DEF S
  <2>4. fault' \in {"none", "freed component", "no HAL", "freed HAL",
                   "freed HAL in handler"}
    BY <1>17 DEF processEnqueue, Follow
  <2> QED
    BY <1>17, <2>1, <2>3, <2>4 DEF processEnqueue, vcVars, Typed, TypeOK
<1>18. ASSUME NEW c \in Cps, NEW t \in {"COMMAND", "STATE"}, processCheck(c, t)
       PROVE  Typed'
  <2>1. posts' \in 0 .. MaxPosts
    <3>1. posts \in 0 .. MaxPosts /\ posts < MaxPosts /\ posts' = posts + 1
      BY <1>18 DEF processCheck, Typed, TypeOK
    <3> QED
      BY <3>1, Parameters
  <2>2. /\ cp' \in [Cps -> CpRecord]
        /\ \A d \in Cps :
             /\ cp'[d].at = "enqueue" => cp'[d].session \in Hals
             /\ cp'[d].at \in {"idle", "enqueue"} => cp'[d].vc \in Vcs
        /\ fault' \in {"none", "freed component", "no HAL", "freed HAL",
                      "freed HAL in handler"}
    <3> DEFINE r == Doing("enqueue", cp[c].vc, t, cec_hal[cp[c].vc])
    <3>1. CASE Follow(cp[c].vc) = "none"
      <4>1. cp[c].vc \in Vcs /\ cec_hal[cp[c].vc] \in Hals
        BY <3>1, <1>18 DEF processCheck, Follow, Typed, TypeOK
      <4>2. r \in CpRecord /\ r.session \in Hals /\ r.vc \in Vcs
        BY <4>1, CpRecords
      <4>3. UNCHANGED fault /\ (UNCHANGED cp \/ cp' = [cp EXCEPT ![c] = r])
        BY <3>1, <1>18 DEF processCheck
      <4> HIDE DEF r
      <4> QED
        BY <4>2, <4>3 DEF Typed, TypeOK
    <3>2. CASE Follow(cp[c].vc) # "none"
      BY <3>2, <1>18 DEF processCheck, Typed, TypeOK, Follow
    <3> QED
      BY <3>1, <3>2
  <2> QED
    BY <1>18, <2>1, <2>2 DEF processCheck, vcVars, halVars, Typed, TypeOK
<1>19. CASE UNCHANGED vars
  BY <1>19 DEF vars, vcVars, halVars, cpVars, Typed, TypeOK
<1> QED
  BY <1>1, <1>2, <1>3, <1>4, <1>5, <1>6, <1>7, <1>8, <1>9, <1>10, <1>11,
     <1>12, <1>13, <1>14, <1>15, <1>16, <1>17, <1>18, <1>19
     DEF Next, AppCall, AppStep, HandlerStep, CpStep

------------------------------------------------------------------------------
\* What the discipline and the queues give the proofs below

\* What each assumption adds to the guards of the actions.
LEMMA OneLife ==
  ASSUME OneAtATime
  PROVE  /\ \A v \in Vcs : vcHdmiCec_Initialize(v) => gvcHdmiCec = NULL
         /\ \A v \in Vcs : vcHdmiCec_Close(v) => cec_hal[v] = NULL
         /\ \A v \in Vcs : vcHdmiCec_Deinitialize(v) => cec_hal[v] = NULL
BY Zenon DEF OneAtATime, vcHdmiCec_Initialize, vcHdmiCec_Close,
             vcHdmiCec_Deinitialize

LEMMA OpensOnce ==
  ASSUME OpenOnce
  PROVE  \A v \in Vcs, e \in BOOLEAN : vcHdmiCec_Open(v, e) => ~profile[v]
BY Zenon DEF vcHdmiCec_Open

LEMMA ClosesQuietly ==
  ASSUME QuietClose
  PROVE  /\ HdmiCecClose => CpQuiet
         /\ \A c \in Cps, t \in {"COMMAND", "STATE"} :
              processCheck(c, t) => app.at \notin Closing
BY Zenon DEF HdmiCecClose, processCheck

\* Where the elements of a queue come from.
LEMMA EnqueuedElements ==
  ASSUME NEW S, NEW q \in Seq(S), NEW m, NEW i \in 1 .. Len(Enqueued(q, m))
  PROVE  Enqueued(q, m)[i] = m \/ (i \in 1 .. Len(q) /\ Enqueued(q, m)[i] = q[i])
BY DEF Enqueued

LEMMA TailElements ==
  ASSUME NEW S, NEW q \in Seq(S), q # <<>>
  PROVE  /\ 1 \in 1 .. Len(q) /\ Head(q) = q[1]
         /\ \A i \in 1 .. Len(Tail(q)) :
              i + 1 \in 1 .. Len(q) /\ Tail(q)[i] = q[i + 1]
OBVIOUS

\* What processEnqueue adds to a queue, if it follows the component safely.
LEMMA EnqueueAdds ==
  ASSUME Typed, NEW c \in Cps, processEnqueue(c)
  PROVE  \/ UNCHANGED backlog
         \/ /\ cec_hal[cp[c].vc] \in Hals
            /\ \A h \in Hals : h # cec_hal[cp[c].vc] => backlog'[h] = backlog[h]
            /\ \A h \in Hals : h = cec_hal[cp[c].vc] =>
                 \A i \in 1 .. Len(backlog'[h]) :
                   \/ /\ backlog'[h][i].type # "EXIT_REQUESTED"
                      /\ backlog'[h][i].session = cp[c].session
                   \/ i \in 1 .. Len(backlog[h]) /\ backlog'[h][i] = backlog[h][i]
<1> DEFINE m == [type |-> cp[c].type, session |-> cp[c].session]
           hal == cec_hal[cp[c].vc]
<1>1. CASE fault' # "none"
  BY <1>1 DEF processEnqueue
<1>2. CASE fault' = "none"
  <2>1. hal \in Hals
    <3>1. Follow(cp[c].vc) = "none" /\ cp[c].vc \in Vcs
      BY <1>2 DEF processEnqueue, Typed
    <3> QED
      BY <3>1 DEF Follow, Typed, TypeOK
  <2>2. backlog' = [backlog EXCEPT ![hal] = Enqueued(backlog[hal], m)]
    BY <1>2 DEF processEnqueue
  <2>3. m.session = cp[c].session /\ m.type # "EXIT_REQUESTED"
    BY CpFields DEF Typed, TypeOK
  <2> HIDE DEF m, hal
  <2>4. \A h \in Hals : h # hal => backlog'[h] = backlog[h]
    BY <2>2 DEF Typed, TypeOK
  <2>5. backlog'[hal] = Enqueued(backlog[hal], m) /\ backlog[hal] \in Seq(Message)
    BY <2>1, <2>2 DEF Typed, TypeOK
  <2>6. \A i \in 1 .. Len(backlog'[hal]) :
          \/ backlog'[hal][i] = m
          \/ i \in 1 .. Len(backlog[hal]) /\ backlog'[hal][i] = backlog[hal][i]
    BY <2>5, EnqueuedElements
  <2> QED
    BY <2>1, <2>3, <2>4, <2>6 DEF hal
<1> QED
  BY <1>1, <1>2

\* What TeardownHal adds: its own exit request.
LEMMA ExitAdds ==
  ASSUME Typed, teardownExit
  PROVE  /\ app.hal \in Hals
         /\ \A h \in Hals : h # app.hal => backlog'[h] = backlog[h]
         /\ \A h \in Hals : h = app.hal =>
              \A i \in 1 .. Len(backlog'[h]) :
                \/ backlog'[h][i] = Exit(h)
                \/ i \in 1 .. Len(backlog[h]) /\ backlog'[h][i] = backlog[h][i]
<1> DEFINE hal == app.hal
<1>1. hal \in Hals
  BY DEF teardownExit, Calling, Closing, Typed
<1>2. backlog' = [backlog EXCEPT ![hal] = Enqueued(backlog[hal], Exit(hal))]
  BY DEF teardownExit
<1> HIDE DEF hal
<1>3. \A h \in Hals : h # hal => backlog'[h] = backlog[h]
  BY <1>2 DEF Typed, TypeOK
<1>4. /\ backlog'[hal] = Enqueued(backlog[hal], Exit(hal))
      /\ backlog[hal] \in Seq(Message)
  BY <1>1, <1>2 DEF Typed, TypeOK
<1>5. \A i \in 1 .. Len(backlog'[hal]) :
        \/ backlog'[hal][i] = Exit(hal)
        \/ i \in 1 .. Len(backlog[hal]) /\ backlog'[hal][i] = backlog[hal][i]
  BY <1>4, EnqueuedElements
<1> QED
  BY <1>1, <1>3, <1>5 DEF hal

\* A turn of the handler takes the first message, and ends the thread only on
\* an exit request.
LEMMA HandlerTakes ==
  ASSUME Typed, NEW h \in Hals, messageHandler(h)
  PROVE  /\ handler[h] = "loop" /\ backlog[h] # <<>>
         /\ \A g \in Hals : g # h =>
              backlog'[g] = backlog[g] /\ handler'[g] = handler[g]
         /\ \A i \in 1 .. Len(backlog'[h]) : \E j \in 1 .. Len(backlog[h]) :
              backlog'[h][i] = backlog[h][j]
         /\ handler'[h] \in {"loop", "callback", "done"}
         /\ handler'[h] = "done" => \E j \in 1 .. Len(backlog[h]) :
              backlog[h][j].type = "EXIT_REQUESTED"
<1>1. /\ handler[h] = "loop" /\ backlog[h] # <<>>
      /\ backlog[h] \in Seq(Message) /\ handler \in [Hals -> HandlerState]
      /\ backlog \in [Hals -> Seq(Message)]
  BY DEF messageHandler, Typed, TypeOK
<1>2. CASE halMem[h] # "live"
  BY <1>1, <1>2 DEF messageHandler
<1>3. CASE halMem[h] = "live"
  <2>1. /\ backlog' = [backlog EXCEPT ![h] = Tail(backlog[h])]
        /\ \E next \in {"loop", "callback", "done"} :
             /\ handler' = [handler EXCEPT ![h] = next]
             /\ next = "done" => Head(backlog[h]).type = "EXIT_REQUESTED"
    <3>1. handler = [handler EXCEPT ![h] = "loop"]
      BY <1>1
    <3> QED
      BY <1>3, <3>1 DEF messageHandler
  <2>2. PICK next \in {"loop", "callback", "done"} :
          /\ \A g \in Hals : handler'[g] = IF g = h THEN next ELSE handler[g]
          /\ next = "done" => Head(backlog[h]).type = "EXIT_REQUESTED"
    BY <1>1, <2>1
  <2>3. \A g \in Hals : backlog'[g] = IF g = h THEN Tail(backlog[h]) ELSE backlog[g]
    BY <1>1, <2>1
  <2>4. \A i \in 1 .. Len(Tail(backlog[h])) :
          /\ i + 1 \in 1 .. Len(backlog[h])
          /\ Tail(backlog[h])[i] = backlog[h][i + 1]
    BY <1>1, TailElements
  <2>5. 1 \in 1 .. Len(backlog[h]) /\ Head(backlog[h]) = backlog[h][1]
    BY <1>1, TailElements
  <2>6. \A i \in 1 .. Len(backlog'[h]) : \E j \in 1 .. Len(backlog[h]) :
          backlog'[h][i] = backlog[h][j]
    <3>1. backlog'[h] = Tail(backlog[h])
      BY <2>3
    <3> QED
      BY <2>4, <3>1
  <2> QED
    BY <1>1, <2>2, <2>3, <2>5, <2>6
<1> QED
  BY <1>2, <1>3

\* UT_ControlPlane_Exit leaves every other control plane alone.
LEMMA StopsOne ==
  ASSUME Typed, deinitializeEnd
  PROVE  /\ \A c \in Cps : cp'[c].at \in {"idle", "enqueue"} => cp'[c] = cp[c]
         /\ \A c \in Cps : cp_instance[gvcHdmiCec] = c => cp'[c].at = "stopped"
<1> USE Parameters
<1>1. CASE cp_instance[gvcHdmiCec] = NULL
  <2>1. UNCHANGED cp
    BY <1>1 DEF deinitializeEnd
  <2> QED
    BY <1>1, <2>1
<1>2. CASE cp_instance[gvcHdmiCec] # NULL
  <2> DEFINE d == cp_instance[gvcHdmiCec]
  <2>1. StopsCp(d)
    BY <1>2 DEF deinitializeEnd
  <2> HIDE DEF d
  <2>2. \A c \in Cps : c # d => cp'[c] = cp[c]
    BY <2>1 DEF StopsCp, Typed, TypeOK
  <2>3. \A c \in Cps : c = d => cp'[c].at = "stopped"
    BY <2>1, CpMoves DEF StopsCp, Typed, TypeOK
  <2> QED
    BY <2>2, <2>3 DEF d
<1> QED
  BY <1>1, <1>2

------------------------------------------------------------------------------
\* No session sees the messages of another, if no message is under way while
\* the HAL is being closed

LEMMA SessionInit == Init => SessionInv
<1> SUFFICES ASSUME Init PROVE SessionInv
  OBVIOUS
<1>1. app.at = "idle" /\ \A c \in Cps : cp[c].at = "none"
  BY AppRecords, CpRecords DEF Init
<1>2. \A h \in Hals : backlog[h] = <<>>
  BY DEF Init
<1> QED
  BY <1>1, <1>2 DEF SessionInv, MessagesOfThisSession

\* Steps that neither touch a queue nor a component's HAL nor let a message in.
LEMMA SessionFrame ==
  ASSUME Typed, SessionInv, UNCHANGED <<cec_hal, backlog>>,
         \A c \in Cps : cp'[c].at = "enqueue" => cp'[c] = cp[c],
         app'.at \in Closing =>
           app.at \in Closing \/ \A c \in Cps : cp'[c].at # "enqueue",
         app'.at = "publish" => gvcHdmiCec' # NULL /\ cec_hal[gvcHdmiCec'] = NULL
  PROVE  SessionInv'
BY DEF SessionInv, MessagesOfThisSession

\* The application's thread.
LEMMA SessionApp ==
  ASSUME Typed, SessionInv, QuietClose, AppCall \/ AppStep
  PROVE  SessionInv'
<1> USE Parameters
<1>1. ASSUME NEW v \in Vcs, vcHdmiCec_Initialize(v) PROVE SessionInv'
  <2>1. app.at = "idle" /\ UNCHANGED <<cec_hal, backlog, cp, app>>
    BY <1>1 DEF vcHdmiCec_Initialize, Calling, halVars, cpVars
  <2> QED
    BY <2>1, SessionFrame DEF Closing
<1>2. ASSUME NEW v \in Vcs, NEW enable \in BOOLEAN, vcHdmiCec_Open(v, enable)
      PROVE  SessionInv'
  <2> DEFINE r == Doing("idle", v, "STATE", NULL)
  <2>1. app.at = "idle" /\ UNCHANGED <<cec_hal, backlog, app>>
    BY <1>2 DEF vcHdmiCec_Open, Calling, halVars
  <2>2. UNCHANGED cp \/ \E c \in Cps : cp' = [cp EXCEPT ![c] = r]
    BY <1>2 DEF vcHdmiCec_Open
  <2>3. r.at = "idle"
    BY CpRecords
  <2> HIDE DEF r
  <2>4. \A c \in Cps : cp'[c].at = "enqueue" => cp'[c] = cp[c]
    BY <2>2, <2>3 DEF Typed, TypeOK
  <2> QED
    BY <2>1, <2>4, SessionFrame DEF Closing
<1>3. ASSUME NEW v \in Vcs, vcHdmiCec_Close(v) \/ vcHdmiCec_Deinitialize(v)
      PROVE  SessionInv'
  <2>1. app'.at \in {"vcClose", "deinitClose", "cpExit"}
    BY <1>3, AppRecords DEF vcHdmiCec_Close, vcHdmiCec_Deinitialize
  <2>2. UNCHANGED <<cec_hal, backlog, cp>>
    BY <1>3 DEF vcHdmiCec_Close, vcHdmiCec_Deinitialize, vcVars, halVars, cpVars
  <2> QED
    BY <2>1, <2>2, SessionFrame DEF Closing
<1>4. ASSUME NEW h \in Hals, HdmiCecOpen(h) PROVE SessionInv'
  <2>1. /\ app'.at = "publish" /\ gvcHdmiCec # NULL /\ cec_hal[gvcHdmiCec] = NULL
        /\ UNCHANGED <<gvcHdmiCec, cec_hal, backlog, cp>>
    BY <1>4, AppRecords DEF HdmiCecOpen, vcVars, cpVars
  <2> QED
    BY <2>1, SessionFrame DEF Closing
<1>5. CASE HdmiCecClose
  <2>1. CpQuiet /\ UNCHANGED <<cec_hal, backlog, cp>>
    BY <1>5, ClosesQuietly DEF HdmiCecClose, vcVars, halVars, cpVars
  <2>2. app'.at = "exit"
    <3>1. OpenHal \in Hals \cup {NULL}
      BY DEF OpenHal, Typed, TypeOK
    <3> QED
      BY <1>5, <3>1, AppRecords DEF HdmiCecClose
  <2> QED
    BY <2>1, <2>2, SessionFrame DEF CpQuiet
<1>6. CASE vcCloseBody
  <2>1. UNCHANGED <<cec_hal, backlog, cp>>
    BY <1>6 DEF vcCloseBody, halVars, cpVars
  <2>2. app'.at \in {"vcClose", "deinitClose", "overflow", "idle", "cpExit"}
    BY <1>6 DEF vcCloseBody, VcClosing, Inside, Idle
  <2> QED
    BY <2>1, <2>2, SessionFrame DEF Closing
<1>7. CASE deinitializeEnd
  <2>1. app'.at = "idle" /\ UNCHANGED <<cec_hal, backlog>>
    BY <1>7, AppRecords DEF deinitializeEnd, halVars
  <2> QED
    BY <1>7, <2>1, StopsOne, SessionFrame DEF Closing
<1>8. CASE openPublish
  <2>1. app.at = "publish" /\ gvcHdmiCec # NULL /\ cec_hal[gvcHdmiCec] = NULL
    BY <1>8 DEF openPublish, Calling, SessionInv
  <2>2. app'.at = "ready"
    <3>1. app.hal \in Hals \cup {NULL}
      BY AppFields DEF Typed, TypeOK
    <3> QED
      BY <1>8, <3>1, AppRecords DEF openPublish
  <2>3. /\ \A v \in Vcs : v # gvcHdmiCec => cec_hal'[v] = cec_hal[v]
        /\ UNCHANGED <<backlog, cp>>
    BY <1>8 DEF openPublish, halVars, cpVars, Typed, TypeOK
  <2>4. \A c \in Cps : cp[c].at = "enqueue" =>
          cp[c].vc \in Vcs /\ cp[c].vc # gvcHdmiCec
    BY <2>1 DEF SessionInv, Typed
  <2> QED
    BY <2>2, <2>3, <2>4 DEF SessionInv, MessagesOfThisSession, Closing
<1>9. CASE openReady
  <2>1. app'.at = "idle" /\ UNCHANGED <<cec_hal, backlog, cp>>
    BY <1>9, AppRecords DEF openReady, vcVars, cpVars
  <2> QED
    BY <2>1, SessionFrame DEF Closing
<1>10. CASE teardownExit
  <2>1. app.at \in Closing /\ app'.at = "join" /\ UNCHANGED <<cec_hal, cp>>
    <3>1. app.hal \in Hals
      BY <1>10, ExitAdds
    <3> QED
      BY <1>10, <3>1, AppRecords DEF teardownExit, Calling, Closing, vcVars, cpVars
  <2>2. \A h \in Hals : \A i \in 1 .. Len(backlog'[h]) : backlog'[h][i].session = h
    <3>1. \A h \in Hals : Exit(h).session = h
      BY DEF Exit
    <3>2. \A h \in Hals : \A i \in 1 .. Len(backlog'[h]) :
            \/ backlog'[h][i] = Exit(h)
            \/ i \in 1 .. Len(backlog[h]) /\ backlog'[h][i] = backlog[h][i]
      BY <1>10, ExitAdds
    <3> QED
      BY <3>1, <3>2 DEF SessionInv, MessagesOfThisSession
  <2> QED
    BY <2>1, <2>2 DEF SessionInv, MessagesOfThisSession
<1>11. CASE teardownJoin \/ teardownFree
  <2>1. /\ app.at \in Closing /\ app'.at \in {"free", "clear"}
        /\ UNCHANGED <<cec_hal, backlog, cp>>
    BY <1>11 DEF teardownJoin, teardownFree, Calling, Closing, Inside, vcVars,
                 halVars, cpVars
  <2> QED
    BY <2>1, SessionFrame
<1>12. CASE closeClear
  <2>1. app.at \in Closing /\ app'.at = "idle" /\ UNCHANGED <<backlog, cp>>
    BY <1>12, AppRecords DEF closeClear, Calling, Closing, halVars, cpVars
  <2> QED
    BY <2>1 DEF SessionInv, MessagesOfThisSession
<1> QED
  BY <1>1, <1>2, <1>3, <1>4, <1>5, <1>6, <1>7, <1>8, <1>9, <1>10, <1>11, <1>12
     DEF AppCall, AppStep

\* The other threads.
LEMMA SessionThreads ==
  ASSUME Typed, SessionInv, QuietClose,
         \/ \E h \in Hals : HandlerStep(h)
         \/ \E c \in Cps : CpStep(c)
  PROVE  SessionInv'
<1> USE Parameters
<1>1. ASSUME NEW h \in Hals, messageHandler(h) PROVE SessionInv'
  <2>1. UNCHANGED <<gvcHdmiCec, cec_hal, cp, app>>
    BY <1>1 DEF messageHandler, vcVars, cpVars
  <2>2. \A g \in Hals : \A i \in 1 .. Len(backlog'[g]) :
          \E j \in 1 .. Len(backlog[g]) : backlog'[g][i] = backlog[g][j]
    BY <1>1, HandlerTakes
  <2>3. MessagesOfThisSession'
    BY <2>2 DEF SessionInv, MessagesOfThisSession
  <2> QED
    BY <2>1, <2>3 DEF SessionInv
<1>2. ASSUME NEW h \in Hals, rxCallback(h) PROVE SessionInv'
  BY <1>2, SessionFrame DEF rxCallback, vcVars, cpVars, SessionInv
<1>3. ASSUME NEW c \in Cps, processEnqueue(c) PROVE SessionInv'
  <2>1. /\ cp[c].at = "enqueue" /\ cec_hal[cp[c].vc] = cp[c].session
        /\ UNCHANGED <<gvcHdmiCec, cec_hal, app>>
    BY <1>3 DEF processEnqueue, SessionInv, vcVars
  <2>2. \A d \in Cps : cp'[d].at = "enqueue" => cp'[d] = cp[d]
    BY <1>3, CpMoves DEF processEnqueue, Typed, TypeOK
  <2>3. \A h \in Hals : \A i \in 1 .. Len(backlog'[h]) :
          \/ backlog'[h][i].session = h
          \/ i \in 1 .. Len(backlog[h]) /\ backlog'[h][i] = backlog[h][i]
    BY <1>3, <2>1, EnqueueAdds
  <2>4. MessagesOfThisSession'
    BY <2>3 DEF SessionInv, MessagesOfThisSession
  <2> QED
    BY <2>1, <2>2, <2>4 DEF SessionInv
<1>4. ASSUME NEW c \in Cps, NEW t \in {"COMMAND", "STATE"}, processCheck(c, t)
      PROVE  SessionInv'
  <2> DEFINE v == cp[c].vc
             r == Doing("enqueue", v, t, cec_hal[v])
  <2>1. app.at \notin Closing /\ UNCHANGED <<gvcHdmiCec, cec_hal, backlog, app>>
    BY <1>4, ClosesQuietly DEF processCheck, vcVars, halVars
  <2>2. \/ UNCHANGED cp
        \/ cp' = [cp EXCEPT ![c] = r]
    BY <1>4 DEF processCheck
  <2>3. r.vc = v /\ r.session = cec_hal[v]
    BY DEF Doing
  <2> HIDE DEF r
  <2>4. \A d \in Cps : cp'[d].at = "enqueue" =>
          cp'[d] = cp[d] \/ cp'[d] = r
    BY <2>2 DEF Typed, TypeOK
  <2>5. \A d \in Cps : cp'[d].at = "enqueue" =>
          cec_hal[cp'[d].vc] = cp'[d].session
    BY <2>3, <2>4 DEF SessionInv
  <2> QED
    BY <2>1, <2>5 DEF SessionInv, MessagesOfThisSession
<1> QED
  BY <1>1, <1>2, <1>3, <1>4 DEF HandlerStep, CpStep

LEMMA SessionStep ==
  QuietClose /\ Typed /\ SessionInv /\ [Next]_vars => SessionInv'
<1> SUFFICES ASSUME QuietClose, Typed, SessionInv, [Next]_vars PROVE SessionInv'
  OBVIOUS
<1>1. CASE UNCHANGED vars
  BY <1>1 DEF vars, vcVars, halVars, cpVars, SessionInv, MessagesOfThisSession
<1> QED
  BY <1>1, SessionApp, SessionThreads DEF Next

------------------------------------------------------------------------------
\* Components, HALs and handler threads live one after the other, if the
\* application has one component at a time and closes its HAL first

LEMMA LifeInit == Init => LifeInv
<1> SUFFICES ASSUME Init PROVE LifeInv
  OBVIOUS
<1>1. OpenHal = NULL /\ app.at = "idle"
  BY AppRecords DEF Init, OpenHal
<1>2. ComponentInv
  BY Parameters DEF Init, ComponentInv
<1>3. AppInv
  BY <1>1 DEF AppInv, Opening, Closing, VcClosing
<1>4. HalInv
  BY <1>1, Parameters DEF Init, HalInv
<1>5. ExitInv
  BY DEF Init, ExitInv
<1> QED
  BY <1>2, <1>3, <1>4, <1>5 DEF LifeInv

\* Steps that only concern the control planes and the component's flags.
LEMMA LifeFrame ==
  ASSUME LifeInv,
         UNCHANGED <<gvcHdmiCec, vcMem, cec_hal, halMem, state, backlog, handler, app>>
  PROVE  LifeInv'
<1>1. OpenHal' = OpenHal
  BY DEF OpenHal
<1> QED
  BY <1>1 DEF LifeInv, ComponentInv, AppInv, HalInv, ExitInv

\* The calls that start.
LEMMA LifeCall ==
  ASSUME Typed, LifeInv, OneAtATime, AppCall
  PROVE  LifeInv'
<1> USE Parameters
<1>0. ComponentInv /\ AppInv /\ HalInv /\ ExitInv
  BY DEF LifeInv
<1>1. ASSUME NEW v \in Vcs, vcHdmiCec_Initialize(v) PROVE LifeInv'
  <2>1. gvcHdmiCec = NULL /\ vcMem[v] = "unused" /\ app.at = "idle"
    BY <1>1, OneLife DEF vcHdmiCec_Initialize, Calling
  <2>2. /\ gvcHdmiCec' = v
        /\ \A x \in Vcs : vcMem'[x] = IF x = v THEN "live" ELSE vcMem[x]
        /\ UNCHANGED <<cec_hal, halMem, state, backlog, handler, app>>
    BY <1>1 DEF vcHdmiCec_Initialize, halVars, Typed, TypeOK
  <2>3. OpenHal = NULL /\ OpenHal' = NULL
    BY <1>0, <2>1, <2>2 DEF OpenHal, ComponentInv
  <2>4. ComponentInv'
    BY <1>0, <2>1, <2>2 DEF ComponentInv
  <2>5. AppInv'
    BY <1>0, <2>1, <2>2 DEF AppInv, Opening, Closing, VcClosing
  <2>6. HalInv' /\ ExitInv'
    BY <1>0, <2>1, <2>2, <2>3 DEF HalInv, ExitInv
  <2> QED
    BY <2>4, <2>5, <2>6 DEF LifeInv
<1>2. ASSUME NEW v \in Vcs, NEW enable \in BOOLEAN, vcHdmiCec_Open(v, enable)
      PROVE  LifeInv'
  BY <1>2, LifeFrame DEF vcHdmiCec_Open, halVars
<1>3. ASSUME NEW v \in Vcs, vcHdmiCec_Close(v) \/ vcHdmiCec_Deinitialize(v)
      PROVE  LifeInv'
  <2>1. v = gvcHdmiCec /\ cec_hal[v] = NULL /\ app.at = "idle"
    BY <1>3, OneLife DEF vcHdmiCec_Close, vcHdmiCec_Deinitialize, Calling
  <2>2. app'.at \in {"vcClose", "deinitClose", "cpExit"}
    BY <1>3, AppRecords DEF vcHdmiCec_Close, vcHdmiCec_Deinitialize
  <2>3. UNCHANGED <<gvcHdmiCec, vcMem, cec_hal, halMem, state, backlog, handler>>
    BY <1>3 DEF vcHdmiCec_Close, vcHdmiCec_Deinitialize, vcVars, halVars
  <2>4. OpenHal = NULL /\ OpenHal' = NULL
    BY <2>1, <2>3 DEF OpenHal
  <2>5. ComponentInv'
    BY <1>0, <2>3 DEF ComponentInv
  <2>6. AppInv'
    BY <2>1, <2>2, <2>3, <2>4 DEF AppInv, Opening, Closing, VcClosing
  <2>7. HalInv'
    BY <1>0, <2>1, <2>2, <2>3, <2>4 DEF HalInv, Closing
  <2>8. ExitInv'
    BY <1>0, <2>1, <2>3 DEF ExitInv
  <2> QED
    BY <2>5, <2>6, <2>7, <2>8 DEF LifeInv
<1>4. ASSUME NEW h \in Hals, HdmiCecOpen(h) PROVE LifeInv'
  <2>1. /\ gvcHdmiCec # NULL /\ cec_hal[gvcHdmiCec] = NULL /\ app.at = "idle"
        /\ halMem[h] = "unused"
    BY <1>4 DEF HdmiCecOpen, Calling
  <2>2. app'.at = "publish" /\ app'.hal = h
    BY <1>4, AppRecords DEF HdmiCecOpen
  <2>3. /\ \A g \in Hals : halMem'[g] = IF g = h THEN "live" ELSE halMem[g]
        /\ \A g \in Hals : handler'[g] = IF g = h THEN "loop" ELSE handler[g]
        /\ UNCHANGED <<gvcHdmiCec, vcMem, cec_hal, state, backlog>>
    BY <1>4 DEF HdmiCecOpen, vcVars, cpVars, Typed, TypeOK
  <2>4. OpenHal = NULL /\ OpenHal' = NULL
    BY <2>1, <2>3 DEF OpenHal
  <2>5. ComponentInv'
    BY <1>0, <2>3 DEF ComponentInv
  <2>6. state[h] = "CLOSED" /\ handler[h] = "none"
    BY <1>0, <2>1 DEF HalInv
  <2>7. AppInv'
    BY <2>1, <2>2, <2>3, <2>4, <2>6 DEF AppInv, Opening, Closing, VcClosing
  <2>8. HalInv'
    BY <1>0, <2>1, <2>2, <2>3, <2>4 DEF HalInv, Closing
  <2>9. ExitInv'
    BY <1>0, <2>1, <2>3, <2>6 DEF ExitInv
  <2> QED
    BY <2>5, <2>7, <2>8, <2>9 DEF LifeInv
<1>5. CASE HdmiCecClose
  <2>1. OpenHal # NULL /\ app.at = "idle"
    BY <1>5 DEF HdmiCecClose, Calling
  <2>2. gvcHdmiCec # NULL /\ OpenHal \in Hals
    BY <2>1 DEF OpenHal, Typed, TypeOK
  <2>3. app'.at = "exit" /\ app'.hal = OpenHal
    BY <1>5, <2>2, AppRecords DEF HdmiCecClose
  <2>4. UNCHANGED <<gvcHdmiCec, vcMem, cec_hal, halMem, state, backlog, handler>>
    BY <1>5 DEF HdmiCecClose, vcVars, halVars
  <2>5. OpenHal' = OpenHal
    BY <2>4 DEF OpenHal
  <2>6. ComponentInv'
    BY <1>0, <2>4 DEF ComponentInv
  <2>7. AppInv'
    BY <1>0, <2>1, <2>2, <2>3, <2>4, <2>5
       DEF AppInv, HalInv, Opening, Closing, VcClosing
  <2>8. HalInv'
    BY <1>0, <2>1, <2>3, <2>4, <2>5 DEF HalInv, Closing
  <2>9. ExitInv'
    BY <1>0, <2>1, <2>4 DEF ExitInv
  <2> QED
    BY <2>6, <2>7, <2>8, <2>9 DEF LifeInv
<1> QED
  BY <1>1, <1>2, <1>3, <1>4, <1>5 DEF AppCall

\* The steps inside the calls of the component.
LEMMA LifeComponent ==
  ASSUME Typed, LifeInv, vcCloseBody \/ deinitializeEnd
  PROVE  LifeInv'
<1> USE Parameters
<1>0. ComponentInv /\ AppInv /\ HalInv /\ ExitInv
  BY DEF LifeInv
<1>1. CASE vcCloseBody
  <2>1. app.at \in VcClosing /\ gvcHdmiCec # NULL /\ OpenHal = NULL
    BY <1>0, <1>1 DEF vcCloseBody, AppInv, VcClosing
  <2>2. ~HalIsOpen(gvcHdmiCec)
    BY <2>1 DEF HalIsOpen, OpenHal
  <2>3. app'.at \in {"idle", "cpExit"}
    BY <1>1, <2>2, AppRecords DEF vcCloseBody
  <2>4. UNCHANGED <<gvcHdmiCec, vcMem, cec_hal, halMem, state, backlog, handler>>
    BY <1>1 DEF vcCloseBody, halVars
  <2>5. OpenHal' = NULL
    BY <2>1, <2>4 DEF OpenHal
  <2>6. ComponentInv'
    BY <1>0, <2>4 DEF ComponentInv
  <2>7. AppInv'
    BY <2>1, <2>3, <2>4, <2>5 DEF AppInv, Opening, Closing, VcClosing
  <2>8. HalInv'
    BY <1>0, <2>1, <2>3, <2>4, <2>5 DEF HalInv, Closing, VcClosing
  <2>9. ExitInv'
    BY <1>0, <2>1, <2>4 DEF ExitInv, VcClosing
  <2> QED
    BY <2>6, <2>7, <2>8, <2>9 DEF LifeInv
<1>2. CASE deinitializeEnd
  <2>1. app.at = "cpExit" /\ gvcHdmiCec # NULL /\ OpenHal = NULL
    BY <1>0, <1>2 DEF deinitializeEnd, Calling, AppInv
  <2>2. gvcHdmiCec \in Vcs /\ cec_hal[gvcHdmiCec] = NULL
    BY <2>1 DEF OpenHal, Typed, TypeOK
  <2>3. app'.at = "idle"
    BY <1>2, AppRecords DEF deinitializeEnd
  <2>4. /\ gvcHdmiCec' = NULL
        /\ \A x \in Vcs : vcMem'[x] = IF x = gvcHdmiCec THEN "freed" ELSE vcMem[x]
        /\ UNCHANGED <<cec_hal, halMem, state, backlog, handler>>
    BY <1>2 DEF deinitializeEnd, halVars, Typed, TypeOK
  <2>5. OpenHal' = NULL
    BY <2>4 DEF OpenHal
  <2>6. ComponentInv'
    BY <1>0, <2>2, <2>4 DEF ComponentInv
  <2>7. AppInv'
    BY <2>3, <2>4, <2>5 DEF AppInv, Opening, Closing, VcClosing
  <2>8. HalInv' /\ ExitInv'
    BY <1>0, <2>1, <2>3, <2>4, <2>5 DEF HalInv, ExitInv, Closing
  <2> QED
    BY <2>6, <2>7, <2>8 DEF LifeInv
<1> QED
  BY <1>1, <1>2

\* The steps inside HdmiCecOpen.
LEMMA LifeOpen ==
  ASSUME Typed, LifeInv, openPublish \/ openReady
  PROVE  LifeInv'
<1> USE Parameters
<1>0. ComponentInv /\ AppInv /\ HalInv /\ ExitInv
  BY DEF LifeInv
<1>1. CASE openPublish
  <2>1. /\ app.at = "publish" /\ gvcHdmiCec # NULL /\ OpenHal = NULL
        /\ app.hal # NULL /\ state[app.hal] = "CLOSED"
    BY <1>0, <1>1 DEF openPublish, Calling, AppInv, Opening
  <2>2. gvcHdmiCec \in Vcs /\ app.hal \in Hals
    BY <2>1, AppFields DEF Typed, TypeOK
  <2>3. app'.at = "ready" /\ app'.hal = app.hal
    BY <1>1, <2>2, AppRecords DEF openPublish
  <2>4. /\ \A x \in Vcs : cec_hal'[x] = IF x = gvcHdmiCec THEN app.hal ELSE cec_hal[x]
        /\ UNCHANGED <<gvcHdmiCec, vcMem, halMem, state, backlog, handler>>
    BY <1>1 DEF openPublish, halVars, Typed, TypeOK
  <2>5. OpenHal' = app.hal
    BY <2>1, <2>2, <2>4 DEF OpenHal
  <2>6. ComponentInv'
    BY <1>0, <2>4 DEF ComponentInv
  <2>7. AppInv'
    BY <2>1, <2>3, <2>4, <2>5 DEF AppInv, Opening, Closing, VcClosing
  <2>8. HalInv'
    BY <1>0, <2>1, <2>2, <2>3, <2>4, <2>5 DEF HalInv, Closing
  <2>9. ExitInv'
    BY <1>0, <2>1, <2>4 DEF ExitInv
  <2> QED
    BY <2>6, <2>7, <2>8, <2>9 DEF LifeInv
<1>2. CASE openReady
  <2>1. app.at = "ready" /\ gvcHdmiCec # NULL /\ OpenHal = app.hal /\ app.hal # NULL
    BY <1>0, <1>2 DEF openReady, Calling, AppInv
  <2>2. app.hal \in Hals
    BY <2>1, AppFields DEF Typed, TypeOK
  <2>3. app'.at = "idle"
    BY <1>2, AppRecords DEF openReady
  <2>4. /\ \A g \in Hals : state'[g] = IF g = app.hal THEN "READY" ELSE state[g]
        /\ UNCHANGED <<gvcHdmiCec, vcMem, cec_hal, halMem, backlog, handler>>
    BY <1>2 DEF openReady, vcVars, Typed, TypeOK
  <2>5. OpenHal' = OpenHal
    BY <2>4 DEF OpenHal
  <2>6. ComponentInv'
    BY <1>0, <2>4 DEF ComponentInv
  <2>7. AppInv'
    BY <2>3, <2>4 DEF AppInv, Opening, Closing, VcClosing
  <2>8. HalInv'
    BY <1>0, <2>1, <2>2, <2>3, <2>4, <2>5 DEF HalInv, Closing
  <2>9. ExitInv'
    BY <1>0, <2>1, <2>4 DEF ExitInv
  <2> QED
    BY <2>6, <2>7, <2>8, <2>9 DEF LifeInv
<1> QED
  BY <1>1, <1>2

\* The steps inside HdmiCecClose.
LEMMA LifeClose ==
  ASSUME Typed, LifeInv, teardownExit \/ teardownJoin \/ teardownFree \/ closeClear
  PROVE  LifeInv'
<1> USE Parameters
<1>0. ComponentInv /\ AppInv /\ HalInv /\ ExitInv
  BY DEF LifeInv
<1> DEFINE hal == app.hal
<1>1. /\ app.at \in Closing /\ gvcHdmiCec # NULL /\ OpenHal = hal
      /\ state[hal] = "READY" /\ hal \in Hals /\ gvcHdmiCec \in Vcs
  <2>1. app.at \in Closing
    BY DEF teardownExit, teardownJoin, teardownFree, closeClear, Calling, Closing
  <2>2. app.at # "idle"
    BY <2>1 DEF Closing
  <2> QED
    BY <1>0, <2>1, <2>2 DEF AppInv, Typed, TypeOK
<1>2. CASE teardownExit
  <2>1. app.at = "exit" /\ app'.at = "join" /\ app'.hal = hal
    BY <1>1, <1>2, AppRecords DEF teardownExit, Calling
  <2>2. UNCHANGED <<gvcHdmiCec, vcMem, cec_hal, halMem, state, handler>>
    BY <1>2 DEF teardownExit, vcVars
  <2>3. OpenHal' = OpenHal
    BY <2>2 DEF OpenHal
  <2>4. ComponentInv'
    BY <1>0, <2>2 DEF ComponentInv
  <2>5. AppInv'
    BY <1>1, <2>1, <2>2, <2>3 DEF AppInv, Opening, Closing, VcClosing
  <2>6. HalInv'
    BY <1>0, <1>1, <2>1, <2>2, <2>3 DEF HalInv, Closing
  <2>7. ExitInv'
    <3>1. \A h \in Hals : h # hal => backlog'[h] = backlog[h]
      BY <1>2, ExitAdds
    <3> QED
      BY <1>0, <2>1, <2>2, <3>1 DEF ExitInv
  <2> QED
    BY <2>4, <2>5, <2>6, <2>7 DEF LifeInv
<1>3. CASE teardownJoin \/ teardownFree
  <2>1. /\ app'.hal = hal /\ handler[hal] = "done"
        /\ \/ app.at = "join" /\ app'.at = "free" /\ UNCHANGED halMem
           \/ /\ app.at = "free" /\ app'.at = "clear"
              /\ halMem' = [halMem EXCEPT ![hal] = "freed"]
    BY <1>0, <1>1, <1>3, AppRecords
       DEF teardownJoin, teardownFree, Calling, AppInv, halVars
  <2>2. UNCHANGED <<gvcHdmiCec, vcMem, cec_hal, state, backlog, handler>>
    BY <1>3 DEF teardownJoin, teardownFree, vcVars, halVars
  <2>3. OpenHal' = OpenHal
    BY <2>2 DEF OpenHal
  <2>4. ComponentInv'
    BY <1>0, <2>2 DEF ComponentInv
  <2>5. AppInv'
    BY <1>1, <2>1, <2>2, <2>3 DEF AppInv, Opening, Closing, VcClosing
  <2>6. HalInv'
    <3>1. \A h \in Hals :
            halMem'[h] = IF h = hal /\ app'.at = "clear" THEN "freed" ELSE halMem[h]
      BY <2>1 DEF Typed, TypeOK
    <3>2. halMem[hal] = "live"
      BY <1>0, <1>1, <2>1 DEF HalInv
    <3> QED
      BY <1>0, <1>1, <2>1, <2>2, <2>3, <3>1, <3>2 DEF HalInv, Closing
  <2>7. ExitInv'
    BY <1>0, <2>1, <2>2 DEF ExitInv
  <2> QED
    BY <2>4, <2>5, <2>6, <2>7 DEF LifeInv
<1>4. CASE closeClear
  <2>1. app.at = "clear" /\ app'.at = "idle" /\ handler[hal] = "done"
    BY <1>0, <1>4, AppRecords DEF closeClear, Calling, AppInv
  <2>2. /\ \A x \in Vcs : cec_hal'[x] = IF x = gvcHdmiCec THEN NULL ELSE cec_hal[x]
        /\ UNCHANGED <<gvcHdmiCec, vcMem, halMem, state, backlog, handler>>
    BY <1>4 DEF closeClear, halVars, Typed, TypeOK
  <2>3. OpenHal' = NULL
    BY <1>1, <2>2 DEF OpenHal
  <2>4. ComponentInv'
    BY <1>0, <2>2 DEF ComponentInv
  <2>5. AppInv'
    BY <2>1, <2>2 DEF AppInv, Opening, Closing, VcClosing
  <2>6. HalInv'
    BY <1>0, <1>1, <2>1, <2>2, <2>3 DEF HalInv, Closing
  <2>7. ExitInv'
    BY <1>0, <2>1, <2>2 DEF ExitInv
  <2> QED
    BY <2>4, <2>5, <2>6, <2>7 DEF LifeInv
<1> QED
  BY <1>2, <1>3, <1>4

\* The handler threads and the control planes.
LEMMA LifeThreads ==
  ASSUME Typed, LifeInv,
         \/ \E h \in Hals : HandlerStep(h)
         \/ \E c \in Cps : CpStep(c)
  PROVE  LifeInv'
<1> USE Parameters
<1>0. ComponentInv /\ AppInv /\ HalInv /\ ExitInv
  BY DEF LifeInv
<1>1. ASSUME NEW h \in Hals, messageHandler(h) \/ rxCallback(h) PROVE LifeInv'
  <2>1. /\ handler[h] \in {"loop", "callback"}
        /\ handler'[h] \in {"loop", "callback", "done"}
        /\ \A g \in Hals : g # h => handler'[g] = handler[g]
        /\ handler'[h] = "done" => \E j \in 1 .. Len(backlog[h]) :
             backlog[h][j].type = "EXIT_REQUESTED"
        /\ \A g \in Hals : \A i \in 1 .. Len(backlog'[g]) :
             \E j \in 1 .. Len(backlog[g]) : backlog'[g][i] = backlog[g][j]
    <3>1. CASE messageHandler(h)
      BY <3>1, HandlerTakes
    <3>2. CASE rxCallback(h)
      BY <3>2 DEF rxCallback, Typed, TypeOK
    <3> QED
      BY <1>1, <3>1, <3>2
  <2>2. UNCHANGED <<gvcHdmiCec, vcMem, cec_hal, halMem, state, app>>
    BY <1>1 DEF messageHandler, rxCallback, vcVars
  <2>3. halMem[h] = "live"
    BY <1>0, <2>1 DEF HalInv, Typed, TypeOK, Memory
  <2>4. handler'[h] = "done" => app.at = "join" /\ app.hal = h
    BY <1>0, <2>1 DEF ExitInv
  <2>5. OpenHal' = OpenHal
    BY <2>2 DEF OpenHal
  <2>6. ComponentInv'
    BY <1>0, <2>2 DEF ComponentInv
  <2>7. AppInv'
    BY <1>0, <2>1, <2>2, <2>4, <2>5 DEF AppInv, Typed, Closing
  <2>8. HalInv'
    BY <1>0, <2>1, <2>2, <2>3, <2>4, <2>5 DEF HalInv, Closing
  <2>9. ExitInv'
    BY <1>0, <2>1, <2>2 DEF ExitInv
  <2> QED
    BY <2>6, <2>7, <2>8, <2>9 DEF LifeInv
<1>2. ASSUME NEW c \in Cps, processEnqueue(c) PROVE LifeInv'
  <2>1. UNCHANGED <<gvcHdmiCec, vcMem, cec_hal, halMem, state, handler, app>>
    BY <1>2 DEF processEnqueue, vcVars
  <2>2. \A h \in Hals : \A i \in 1 .. Len(backlog'[h]) :
          \/ backlog'[h][i].type # "EXIT_REQUESTED"
          \/ i \in 1 .. Len(backlog[h]) /\ backlog'[h][i] = backlog[h][i]
    BY <1>2, EnqueueAdds
  <2>3. OpenHal' = OpenHal
    BY <2>1 DEF OpenHal
  <2>4. ComponentInv' /\ AppInv' /\ HalInv'
    BY <1>0, <2>1, <2>3 DEF ComponentInv, AppInv, HalInv
  <2>5. ExitInv'
    BY <1>0, <2>1, <2>2 DEF ExitInv
  <2> QED
    BY <2>4, <2>5 DEF LifeInv
<1>3. ASSUME NEW c \in Cps, NEW t \in {"COMMAND", "STATE"}, processCheck(c, t)
      PROVE  LifeInv'
  BY <1>3, LifeFrame DEF processCheck, vcVars, halVars
<1> QED
  BY <1>1, <1>2, <1>3 DEF HandlerStep, CpStep

LEMMA LifeStep == OneAtATime /\ Typed /\ LifeInv /\ [Next]_vars => LifeInv'
<1> SUFFICES ASSUME OneAtATime, Typed, LifeInv, [Next]_vars PROVE LifeInv'
  OBVIOUS
<1>1. CASE UNCHANGED vars
  BY <1>1, LifeFrame DEF vars, vcVars, halVars
<1>2. CASE AppStep
  BY <1>2, LifeComponent, LifeOpen, LifeClose DEF AppStep
<1> QED
  BY <1>1, <1>2, LifeCall, LifeThreads DEF Next

------------------------------------------------------------------------------
\* Only a ready HAL is sent messages, if both of the above hold

LEMMA ReadyInit == Init => ReadyInv
<1> SUFFICES ASSUME Init PROVE ReadyInv
  OBVIOUS
<1>1. \A c \in Cps : cp[c].at = "none"
  BY CpRecords DEF Init
<1> QED
  BY <1>1 DEF Init, ReadyInv

\* Steps that let no message in, queue none and start no callback.
LEMMA ReadyFrame ==
  ASSUME Typed, ReadyInv, UNCHANGED backlog,
         \A h \in Hals : state[h] = "READY" => state'[h] = "READY",
         \A h \in Hals : handler'[h] = "callback" => handler[h] = "callback",
         \A c \in Cps : cp'[c].at = "enqueue" => cp'[c] = cp[c]
  PROVE  ReadyInv'
BY DEF ReadyInv, Typed

LEMMA ReadyStep ==
  Typed /\ LifeInv /\ SessionInv /\ ReadyInv /\ [Next]_vars => ReadyInv'
<1> SUFFICES ASSUME Typed, LifeInv, SessionInv, ReadyInv, [Next]_vars
             PROVE  ReadyInv'
  OBVIOUS
<1>1. ASSUME NEW v \in Vcs, NEW enable \in BOOLEAN, vcHdmiCec_Open(v, enable)
      PROVE  ReadyInv'
  <2> DEFINE r == Doing("idle", v, "STATE", NULL)
  <2>1. UNCHANGED <<state, backlog, handler>>
    BY <1>1 DEF vcHdmiCec_Open, halVars
  <2>2. UNCHANGED cp \/ \E c \in Cps : cp' = [cp EXCEPT ![c] = r]
    BY <1>1 DEF vcHdmiCec_Open
  <2>3. r.at = "idle"
    BY CpRecords
  <2> HIDE DEF r
  <2>4. \A c \in Cps : cp'[c].at = "enqueue" => cp'[c] = cp[c]
    BY <2>2, <2>3 DEF Typed, TypeOK
  <2> QED
    BY <2>1, <2>4, ReadyFrame
<1>2. ASSUME NEW h \in Hals, HdmiCecOpen(h) PROVE ReadyInv'
  <2>1. UNCHANGED <<state, backlog, cp>>
    BY <1>2 DEF HdmiCecOpen, vcVars, cpVars
  <2>2. \A g \in Hals : handler'[g] = "callback" => handler[g] = "callback"
    BY <1>2 DEF HdmiCecOpen, Typed, TypeOK
  <2> QED
    BY <2>1, <2>2, ReadyFrame
<1>3. CASE deinitializeEnd
  <2>1. UNCHANGED <<state, backlog, handler>>
    BY <1>3 DEF deinitializeEnd, halVars
  <2> QED
    BY <1>3, <2>1, StopsOne, ReadyFrame
<1>4. CASE openReady
  <2>1. UNCHANGED <<backlog, handler, cp>>
    BY <1>4 DEF openReady, cpVars
  <2>2. \A h \in Hals : state[h] = "READY" => state'[h] = "READY"
    BY <1>4 DEF openReady, Typed, TypeOK
  <2> QED
    BY <2>1, <2>2, ReadyFrame
<1>5. CASE teardownExit
  <2>1. app.hal \in Hals /\ \A h \in Hals : h # app.hal => backlog'[h] = backlog[h]
    BY <1>5, ExitAdds
  <2>2. state[app.hal] = "READY"
    BY <1>5 DEF teardownExit, Calling, LifeInv, AppInv, Closing
  <2>3. UNCHANGED <<state, handler, cp>>
    BY <1>5 DEF teardownExit, cpVars
  <2> QED
    BY <2>1, <2>2, <2>3 DEF ReadyInv
<1>6. ASSUME NEW h \in Hals, messageHandler(h) PROVE ReadyInv'
  <2>1. /\ backlog[h] # <<>>
        /\ \A g \in Hals : g # h =>
             backlog'[g] = backlog[g] /\ handler'[g] = handler[g]
    BY <1>6, HandlerTakes
  <2>2. UNCHANGED <<state, cp>>
    BY <1>6 DEF messageHandler, cpVars
  <2> QED
    BY <2>1, <2>2 DEF ReadyInv
<1>7. ASSUME NEW h \in Hals, rxCallback(h) PROVE ReadyInv'
  <2>1. UNCHANGED <<state, backlog, cp>>
    BY <1>7 DEF rxCallback, cpVars
  <2>2. \A g \in Hals : handler'[g] = "callback" => handler[g] = "callback"
    BY <1>7 DEF rxCallback, Typed, TypeOK
  <2> QED
    BY <2>1, <2>2, ReadyFrame
<1>8. ASSUME NEW c \in Cps, processEnqueue(c) PROVE ReadyInv'
  <2>1. cp[c].at = "enqueue" /\ cec_hal[cp[c].vc] = cp[c].session
    BY <1>8 DEF processEnqueue, SessionInv
  <2>2. /\ UNCHANGED <<state, handler>>
        /\ \A d \in Cps : cp'[d].at = "enqueue" => cp'[d] = cp[d]
    BY <1>8, CpMoves DEF processEnqueue, Typed, TypeOK
  <2>3. \A h \in Hals : backlog'[h] = backlog[h] \/ h = cp[c].session
    BY <1>8, <2>1, EnqueueAdds
  <2> QED
    BY <2>1, <2>2, <2>3 DEF ReadyInv
<1>9. ASSUME NEW c \in Cps, NEW t \in {"COMMAND", "STATE"}, processCheck(c, t)
      PROVE  ReadyInv'
  <2> DEFINE v == cp[c].vc
             r == Doing("enqueue", v, t, cec_hal[v])
  <2>1. UNCHANGED <<state, backlog, handler>>
    BY <1>9 DEF processCheck, halVars
  <2>2. \/ UNCHANGED cp
        \/ state[cec_hal[v]] = "READY" /\ cp' = [cp EXCEPT ![c] = r]
    BY <1>9 DEF processCheck
  <2>3. r.session = cec_hal[v]
    BY DEF Doing
  <2> HIDE DEF r
  <2>4. \A d \in Cps : cp'[d].at = "enqueue" =>
          \/ cp'[d] = cp[d]
          \/ cp'[d] = r /\ state[cec_hal[v]] = "READY"
    BY <2>2 DEF Typed, TypeOK
  <2> QED
    BY <2>1, <2>3, <2>4 DEF ReadyInv
<1>10. CASE UNCHANGED <<state, backlog, handler, cp>>
  BY <1>10, ReadyFrame
<1> QED
  BY <1>1, <1>2, <1>3, <1>4, <1>5, <1>6, <1>7, <1>8, <1>9, <1>10
     DEF Next, AppCall, AppStep, HandlerStep, CpStep, vars, halVars, cpVars,
         vcHdmiCec_Initialize, vcHdmiCec_Close, vcHdmiCec_Deinitialize,
         HdmiCecClose, vcCloseBody, openPublish, teardownJoin, teardownFree,
         closeClear

------------------------------------------------------------------------------
\* Every control plane that runs belongs to the component, if components come
\* one at a time and are opened once

LEMMA CpInit == Init => CpInv
<1> SUFFICES ASSUME Init PROVE CpInv
  OBVIOUS
<1>1. \A c \in Cps : cp[c].at = "none"
  BY CpRecords DEF Init
<1> QED
  BY <1>1 DEF Init, CpInv

\* Steps that start no control plane, read no profile and leave the component.
LEMMA CpFrame ==
  ASSUME CpInv, UNCHANGED <<gvcHdmiCec, profile, cp_instance>>,
         \A v \in Vcs : vcMem'[v] = "unused" => vcMem[v] = "unused",
         \A c \in Cps : cp'[c].at \in {"idle", "enqueue"} =>
           cp[c].at \in {"idle", "enqueue"} /\ cp'[c].vc = cp[c].vc
  PROVE  CpInv'
BY DEF CpInv

LEMMA CpInvStep ==
  OneAtATime /\ OpenOnce /\ Typed /\ LifeInv /\ CpInv /\ [Next]_vars => CpInv'
<1> SUFFICES ASSUME OneAtATime, OpenOnce, Typed, LifeInv, CpInv, [Next]_vars
             PROVE  CpInv'
  OBVIOUS
<1> USE Parameters
<1>1. ASSUME NEW v \in Vcs, vcHdmiCec_Initialize(v) PROVE CpInv'
  <2>1. gvcHdmiCec = NULL /\ UNCHANGED <<profile, cp_instance, cp>>
    BY <1>1, OneLife DEF vcHdmiCec_Initialize, cpVars
  <2>2. \A x \in Vcs : vcMem'[x] = "unused" => vcMem[x] = "unused"
    BY <1>1 DEF vcHdmiCec_Initialize, Typed, TypeOK
  <2>3. \A c \in Cps : cp[c].at \notin {"idle", "enqueue"}
    BY <2>1 DEF CpInv, Typed
  <2> QED
    BY <2>1, <2>2, <2>3 DEF CpInv
<1>2. ASSUME NEW v \in Vcs, NEW enable \in BOOLEAN, vcHdmiCec_Open(v, enable)
      PROVE  CpInv'
  <2> DEFINE r == Doing("idle", v, "STATE", NULL)
  <2>1. /\ v = gvcHdmiCec /\ ~profile[v] /\ cp_instance[v] = NULL
        /\ vcMem[v] = "live"
    BY <1>2, OpensOnce DEF vcHdmiCec_Open, CpInv, LifeInv, ComponentInv
  <2>2. \A c \in Cps : cp[c].at \notin {"idle", "enqueue"}
    BY <2>1 DEF CpInv
  <2>3. r.at = "idle" /\ r.vc = v
    BY CpRecords
  <2>4. \/ UNCHANGED <<cp, cp_instance>>
        \/ \E c \in Cps :
             /\ cp' = [cp EXCEPT ![c] = r]
             /\ cp_instance' = [cp_instance EXCEPT ![v] = c]
    BY <1>2 DEF vcHdmiCec_Open
  <2>5. /\ \A x \in Vcs : profile'[x] = IF x = v THEN TRUE ELSE profile[x]
        /\ UNCHANGED <<gvcHdmiCec, vcMem>>
    BY <1>2 DEF vcHdmiCec_Open, Typed, TypeOK
  <2> HIDE DEF r
  <2>6. /\ \A x \in Vcs : x # v => cp_instance'[x] = cp_instance[x]
        /\ \A c \in Cps : cp'[c].at \in {"idle", "enqueue"} =>
             cp'[c].vc = v /\ cp_instance'[v] = c
    BY <2>2, <2>3, <2>4 DEF Typed, TypeOK
  <2> QED
    BY <2>1, <2>5, <2>6 DEF CpInv
<1>3. CASE deinitializeEnd
  <2>1. \A c \in Cps : cp'[c].at \notin {"idle", "enqueue"}
    <3>1. \A c \in Cps : cp'[c].at \in {"idle", "enqueue"} =>
            cp'[c] = cp[c] /\ cp_instance[gvcHdmiCec] # c
      BY <1>3, StopsOne
    <3> QED
      BY <3>1 DEF CpInv
  <2>2. /\ \A v \in Vcs : vcMem'[v] = "unused" => vcMem[v] = "unused"
        /\ UNCHANGED <<profile, cp_instance>>
    BY <1>3 DEF deinitializeEnd, Typed, TypeOK
  <2> QED
    BY <2>1, <2>2 DEF CpInv
<1>4. ASSUME NEW c \in Cps, processEnqueue(c) PROVE CpInv'
  <2>1. \A d \in Cps : cp'[d].at \in {"idle", "enqueue"} =>
          cp[d].at \in {"idle", "enqueue"} /\ cp'[d].vc = cp[d].vc
    BY <1>4, CpMoves DEF processEnqueue, Typed, TypeOK
  <2> QED
    BY <1>4, <2>1, CpFrame DEF processEnqueue, vcVars
<1>5. ASSUME NEW c \in Cps, NEW t \in {"COMMAND", "STATE"}, processCheck(c, t)
      PROVE  CpInv'
  <2> DEFINE r == Doing("enqueue", cp[c].vc, t, cec_hal[cp[c].vc])
  <2>1. cp[c].at = "idle" /\ (UNCHANGED cp \/ cp' = [cp EXCEPT ![c] = r])
    BY <1>5 DEF processCheck
  <2>2. r.vc = cp[c].vc
    BY DEF Doing
  <2> HIDE DEF r
  <2>3. \A d \in Cps : cp'[d].at \in {"idle", "enqueue"} =>
          cp[d].at \in {"idle", "enqueue"} /\ cp'[d].vc = cp[d].vc
    BY <2>1, <2>2 DEF Typed, TypeOK
  <2> QED
    BY <1>5, <2>3, CpFrame DEF processCheck, vcVars
<1>6. CASE UNCHANGED <<gvcHdmiCec, vcMem, profile, cp_instance, cp>>
  BY <1>6, CpFrame
<1> QED
  BY <1>1, <1>2, <1>3, <1>4, <1>5, <1>6
     DEF Next, AppCall, AppStep, HandlerStep, CpStep, vars, vcVars, cpVars,
         vcHdmiCec_Close, vcHdmiCec_Deinitialize, HdmiCecOpen, HdmiCecClose,
         vcCloseBody, openPublish, openReady, teardownExit, teardownJoin,
         teardownFree, closeClear, messageHandler, rxCallback

------------------------------------------------------------------------------
\* Nobody follows a pointer to nothing, if all of the above hold

\* Everything that is known under the whole discipline.
IInv == LifeInv /\ SessionInv /\ ReadyInv /\ CpInv /\ NoFault

\* The two halves of ProcessMsg.  What the first finds the second still finds:
\* following the component never meets freed memory.
LEMMA FollowOpen ==
  ASSUME Typed, LifeInv, CpInv, NEW c \in Cps, cp[c].at \in {"idle", "enqueue"},
         app.at \notin Closing
  PROVE  /\ cp[c].vc = gvcHdmiCec /\ gvcHdmiCec \in Vcs
         /\ cec_hal[gvcHdmiCec] = OpenHal
         /\ Follow(gvcHdmiCec) = IF OpenHal = NULL THEN "no HAL" ELSE "none"
<1> USE Parameters
<1>0. ComponentInv /\ HalInv /\ CpInv
  BY DEF LifeInv
<1>1. cp[c].vc = gvcHdmiCec /\ gvcHdmiCec \in Vcs
  BY <1>0 DEF CpInv, Typed
<1>2. cec_hal[gvcHdmiCec] = OpenHal
  BY <1>1 DEF OpenHal
<1>3. vcMem[gvcHdmiCec] = "live" /\ OpenHal \in Hals \cup {NULL}
  BY <1>0, <1>1, <1>2 DEF ComponentInv, Typed, TypeOK
<1>4. OpenHal # NULL => halMem[OpenHal] = "live"
  BY <1>0, <1>3 DEF HalInv, Closing
<1> QED
  BY <1>1, <1>2, <1>3, <1>4 DEF Follow

\* The handler thread and the callback meet live memory only.
LEMMA HandlerSafe ==
  ASSUME Typed, LifeInv, fault = "none",
         NEW h \in Hals, messageHandler(h) \/ rxCallback(h)
  PROVE  fault' = "none"
<1>0. AppInv /\ HalInv
  BY DEF LifeInv
<1>1. ASSUME NEW g \in Hals, handler[g] \in {"loop", "callback"}
      PROVE  halMem[g] = "live"
  BY <1>0, <1>1 DEF HalInv, Typed, TypeOK, Memory
<1>2. CASE messageHandler(h)
  BY <1>1, <1>2 DEF messageHandler
<1>3. CASE rxCallback(h)
  <2>1. halMem[h] = "live" /\ handler[h] = "callback"
    BY <1>1, <1>3 DEF rxCallback
  <2>2. OpenHal # NULL => OpenHal \in Hals
    BY DEF OpenHal, Typed, TypeOK
  <2>3. app.at = "clear" => OpenHal = app.hal /\ handler[app.hal] = "done"
    BY <1>0 DEF AppInv, Closing
  <2>4. OpenHal # NULL => halMem[OpenHal] = "live"
    BY <1>0, <2>1, <2>2, <2>3 DEF HalInv
  <2> QED
    BY <1>3, <2>1, <2>4 DEF rxCallback
<1> QED
  BY <1>2, <1>3

LEMMA NoFaultStep == QuietClose /\ Typed /\ IInv /\ [Next]_vars => NoFault'
<1> SUFFICES ASSUME QuietClose, Typed, IInv, [Next]_vars PROVE NoFault'
  OBVIOUS
<1> USE Parameters
<1>0. /\ LifeInv /\ SessionInv /\ CpInv /\ fault = "none"
      /\ AppInv /\ HalInv
  BY DEF IInv, LifeInv, NoFault
<1>2. ASSUME NEW h \in Hals, messageHandler(h) \/ rxCallback(h) PROVE NoFault'
  BY <1>0, <1>2, HandlerSafe DEF NoFault
<1>4. ASSUME NEW c \in Cps, processEnqueue(c) PROVE NoFault'
  <2>1. /\ cp[c].at = "enqueue" /\ app.at \notin Closing
        /\ cec_hal[cp[c].vc] = cp[c].session /\ cp[c].session \in Hals
    BY <1>0, <1>4 DEF processEnqueue, SessionInv, Typed
  <2>2. Follow(cp[c].vc) = "none"
    BY <1>0, <2>1, FollowOpen
  <2> QED
    BY <1>4, <2>2 DEF processEnqueue, NoFault
<1>5. ASSUME NEW c \in Cps, NEW t \in {"COMMAND", "STATE"}, processCheck(c, t)
      PROVE  NoFault'
  <2>1. cp[c].at = "idle" /\ app.at \notin Closing
    BY <1>5, ClosesQuietly DEF processCheck
  <2>2. Follow(cp[c].vc) \in {"no HAL", "none"}
    BY <1>0, <2>1, FollowOpen
  <2>3. UNCHANGED fault
    BY <1>5, <2>2 DEF processCheck
  <2> QED
    BY <1>0, <2>3 DEF NoFault
<1>6. CASE UNCHANGED fault
  BY <1>0, <1>6 DEF NoFault
<1> QED
  BY <1>2, <1>4, <1>5, <1>6
     DEF Next, AppCall, AppStep, HandlerStep, CpStep, vars, vcHdmiCec_Initialize,
         vcHdmiCec_Open, vcHdmiCec_Close, vcHdmiCec_Deinitialize, HdmiCecOpen,
         HdmiCecClose, vcCloseBody, deinitializeEnd, openPublish, openReady,
         teardownExit, teardownJoin, teardownFree, closeClear

------------------------------------------------------------------------------
\* What is left when messages race with HdmiCecClose

\* A control plane past the check of ProcessMsg has seen a HAL that was ready.
CheckedInv ==
  \A c \in Cps : cp[c].at = "enqueue" => state[cp[c].session] = "READY"

\* The only accesses to what is not there are those of ProcessMsg, to the HAL
\* TeardownHal has freed and HdmiCecClose still has to take away, or, past the
\* check, to none, when the HAL that passed it is freed by now.
OnlyAcrossClose ==
  /\ fault \in {"none", "freed HAL", "no HAL"}
  /\ fault = "freed HAL" => app.at = "clear"
  /\ fault = "no HAL" =>
       /\ OpenHal = NULL
       /\ \E c \in Cps :
            cp[c].session \in Hals /\ halMem[cp[c].session] = "freed"

\* Steps that leave the states and let no message in.
LEMMA CheckedFrame ==
  ASSUME CheckedInv,
         Typed,
         \A h \in Hals : state[h] = "READY" => state'[h] = "READY",
         \A c \in Cps : cp'[c].at = "enqueue" => cp'[c] = cp[c]
  PROVE  CheckedInv'
BY DEF CheckedInv, Typed

LEMMA CheckedStep == Typed /\ CheckedInv /\ [Next]_vars => CheckedInv'
<1> SUFFICES ASSUME Typed, CheckedInv, [Next]_vars PROVE CheckedInv'
  OBVIOUS
<1>1. ASSUME NEW v \in Vcs, NEW enable \in BOOLEAN, vcHdmiCec_Open(v, enable)
      PROVE  CheckedInv'
  <2> DEFINE r == Doing("idle", v, "STATE", NULL)
  <2>1. UNCHANGED state
    BY <1>1 DEF vcHdmiCec_Open, halVars
  <2>2. UNCHANGED cp \/ \E c \in Cps : cp' = [cp EXCEPT ![c] = r]
    BY <1>1 DEF vcHdmiCec_Open
  <2>3. r.at = "idle"
    BY CpRecords
  <2> HIDE DEF r
  <2>4. \A c \in Cps : cp'[c].at = "enqueue" => cp'[c] = cp[c]
    BY <2>2, <2>3 DEF Typed, TypeOK
  <2> QED
    BY <2>1, <2>4, CheckedFrame
<1>2. CASE deinitializeEnd
  <2>1. UNCHANGED state
    BY <1>2 DEF deinitializeEnd, halVars
  <2> QED
    BY <1>2, <2>1, StopsOne, CheckedFrame
<1>3. CASE openReady
  <2>1. UNCHANGED cp /\ \A h \in Hals : state[h] = "READY" => state'[h] = "READY"
    BY <1>3 DEF openReady, cpVars, Typed, TypeOK
  <2> QED
    BY <2>1, CheckedFrame
<1>4. ASSUME NEW c \in Cps, processEnqueue(c) PROVE CheckedInv'
  <2>1. /\ UNCHANGED state
        /\ \A d \in Cps : cp'[d].at = "enqueue" => cp'[d] = cp[d]
    BY <1>4, CpMoves DEF processEnqueue, Typed, TypeOK
  <2> QED
    BY <2>1, CheckedFrame
<1>5. ASSUME NEW c \in Cps, NEW t \in {"COMMAND", "STATE"}, processCheck(c, t)
      PROVE  CheckedInv'
  <2> DEFINE v == cp[c].vc
             r == Doing("enqueue", v, t, cec_hal[v])
  <2>1. UNCHANGED state
    BY <1>5 DEF processCheck, halVars
  <2>2. \/ UNCHANGED cp
        \/ state[cec_hal[v]] = "READY" /\ cp' = [cp EXCEPT ![c] = r]
    BY <1>5 DEF processCheck
  <2>3. r.session = cec_hal[v]
    BY DEF Doing
  <2> HIDE DEF r
  <2>4. \A d \in Cps : cp'[d].at = "enqueue" =>
          \/ cp'[d] = cp[d]
          \/ cp'[d] = r /\ state[cec_hal[v]] = "READY"
    BY <2>2 DEF Typed, TypeOK
  <2> QED
    BY <2>1, <2>3, <2>4 DEF CheckedInv
<1>6. CASE UNCHANGED <<state, cp>>
  BY <1>6, CheckedFrame
<1> QED
  BY <1>1, <1>2, <1>3, <1>4, <1>5, <1>6
     DEF Next, AppCall, AppStep, HandlerStep, CpStep, vars, halVars, cpVars,
         vcHdmiCec_Initialize, vcHdmiCec_Close, vcHdmiCec_Deinitialize,
         HdmiCecOpen, HdmiCecClose, vcCloseBody, openPublish, teardownExit,
         teardownJoin, teardownFree, closeClear, messageHandler, rxCallback

\* What following the component of a control plane that runs meets.
LEMMA FollowRunning ==
  ASSUME Typed, LifeInv, CpInv, NEW c \in Cps, cp[c].at \in {"idle", "enqueue"}
  PROVE  /\ cp[c].vc = gvcHdmiCec
         /\ Follow(cp[c].vc) \in {"none", "no HAL", "freed HAL"}
         /\ Follow(cp[c].vc) = "no HAL" => OpenHal = NULL
         /\ Follow(cp[c].vc) = "freed HAL" => app.at = "clear"
<1> USE Parameters
<1>0. ComponentInv /\ HalInv
  BY DEF LifeInv
<1>1. cp[c].vc = gvcHdmiCec /\ gvcHdmiCec \in Vcs
  BY DEF CpInv, Typed
<1>2. vcMem[gvcHdmiCec] = "live" /\ OpenHal = cec_hal[gvcHdmiCec]
  BY <1>0, <1>1 DEF ComponentInv, OpenHal
<1>3. OpenHal \in Hals \cup {NULL}
  BY DEF OpenHal, Typed, TypeOK
<1>4. OpenHal # NULL /\ halMem[OpenHal] # "live" => app.at = "clear"
  BY <1>0, <1>3 DEF HalInv
<1> QED
  BY <1>1, <1>2, <1>4 DEF Follow

LEMMA OnlyAcrossCloseStep ==
  /\ Typed /\ LifeInv /\ CpInv /\ CheckedInv /\ OnlyAcrossClose /\ [Next]_vars
  => OnlyAcrossClose'
<1> SUFFICES ASSUME Typed, LifeInv, CpInv, CheckedInv, OnlyAcrossClose,
                    [Next]_vars
             PROVE  OnlyAcrossClose'
  OBVIOUS
<1> USE Parameters
<1>1. CASE UNCHANGED vars
  BY <1>1 DEF OnlyAcrossClose, vars, vcVars, halVars, cpVars, OpenHal
<1>2. CASE fault' = "none"
  BY <1>2 DEF OnlyAcrossClose
<1>3. ASSUME NEW h \in Hals, HandlerStep(h) PROVE fault' = "none"
  <2>1. fault = "none"
    BY <1>3 DEF HandlerStep, messageHandler, rxCallback
  <2> QED
    BY <1>3, <2>1, HandlerSafe DEF HandlerStep
<1>4. ASSUME NEW c \in Cps, processEnqueue(c) PROVE OnlyAcrossClose'
  <2> DEFINE s == cp[c].session
  <2>1. /\ cp[c].at = "enqueue" /\ fault' = Follow(cp[c].vc)
        /\ UNCHANGED <<gvcHdmiCec, cec_hal, halMem, app>>
        /\ s \in Hals /\ state[s] = "READY" /\ cp'[c].session = s
    BY <1>4, CpMoves DEF processEnqueue, vcVars, Typed, TypeOK, CheckedInv
  <2>2. OpenHal' = OpenHal
    BY <2>1 DEF OpenHal
  <2> HIDE DEF s
  <2>3. OpenHal = NULL => halMem[s] = "freed"
    <3>1. AppInv /\ HalInv /\ s # NULL /\ halMem[s] \in Memory
      BY <2>1 DEF LifeInv, Typed, TypeOK
    <3>2. ~(app.at = "publish" /\ app.hal = s)
      BY <2>1, <3>1 DEF AppInv, Opening
    <3>3. halMem[s] # "unused" /\ (OpenHal = NULL => halMem[s] # "live")
      BY <2>1, <3>1, <3>2 DEF HalInv
    <3> QED
      BY <3>1, <3>3 DEF Memory
  <2> QED
    BY <2>1, <2>2, <2>3, FollowRunning DEF OnlyAcrossClose
<1>5. ASSUME NEW c \in Cps, NEW t \in {"COMMAND", "STATE"}, processCheck(c, t)
      PROVE  OnlyAcrossClose'
  <2>1. cp[c].at = "idle" /\ fault = "none" /\ UNCHANGED app
    BY <1>5 DEF processCheck
  <2>2. fault' \in {"none", "freed HAL"} /\ (fault' = "freed HAL" => app.at = "clear")
    <3>1. Follow(cp[c].vc) \in {"none", "no HAL"} => UNCHANGED fault
      BY <1>5 DEF processCheck
    <3>2. Follow(cp[c].vc) = "freed HAL" => fault' = "freed HAL"
      BY <1>5 DEF processCheck
    <3> QED
      BY <2>1, <3>1, <3>2, FollowRunning
  <2> QED
    BY <2>1, <2>2 DEF OnlyAcrossClose
<1> QED
  BY <1>1, <1>2, <1>3, <1>4, <1>5
     DEF Next, AppCall, AppStep, CpStep, Calling, vcHdmiCec_Initialize,
         vcHdmiCec_Open, vcHdmiCec_Close, vcHdmiCec_Deinitialize, HdmiCecOpen,
         HdmiCecClose, vcCloseBody, deinitializeEnd, openPublish, openReady,
         teardownExit, teardownJoin, teardownFree, closeClear

------------------------------------------------------------------------------
\* HalLifecycle implements HalService, if components come one at a time and no
\* message is under way while the HAL is being closed

\* A request to end has nothing behind it, so a thread that has ended has
\* handled everything, and no thread ends before it is asked to.
DrainInv ==
  /\ \A h \in Hals :
       /\ \A i \in 1 .. Len(backlog[h]) :
            backlog[h][i].type = "EXIT_REQUESTED" => i = Len(backlog[h])
       /\ handler[h] = "done" => backlog[h] = <<>>
  /\ app.at = "exit" => handler[app.hal] # "done"

LEMMA DrainInit == Init => DrainInv
<1> SUFFICES ASSUME Init PROVE DrainInv
  OBVIOUS
<1>1. app.at = "idle" /\ \A h \in Hals : backlog[h] = <<>>
  BY AppRecords DEF Init
<1> QED
  BY <1>1 DEF DrainInv

\* While no thread has been asked to end, no request to end is in its queue.
LEMMA NoExitYet ==
  ASSUME Typed, LifeInv, DrainInv, app.at # "join",
         NEW h \in Hals, NEW i \in 1 .. Len(backlog[h])
  PROVE  backlog[h][i].type # "EXIT_REQUESTED"
<1>1. ExitInv
  BY DEF LifeInv
<1>2. backlog[h] = <<>> => Len(backlog[h]) = 0
  OBVIOUS
<1> QED
  BY <1>1, <1>2 DEF ExitInv, DrainInv

\* The thread of the open HAL runs until HdmiCecClose is called.
LEMMA RunsWhileOpen ==
  ASSUME Typed, LifeInv, OpenHal # NULL, app.at \notin Closing
  PROVE  OpenHal \in Hals /\ handler[OpenHal] # "done"
<1>1. OpenHal \in Hals
  BY DEF OpenHal, Typed, TypeOK
<1> QED
  BY <1>1 DEF LifeInv, HalInv, Closing

\* A turn of the handler, whose HAL is never freed under it.
LEMMA HandlerTurn ==
  ASSUME Typed, LifeInv, NEW h \in Hals, messageHandler(h)
  PROVE  /\ backlog[h] \in Seq(Message) /\ backlog[h] # <<>>
         /\ backlog'[h] = Tail(backlog[h])
         /\ \A g \in Hals : g # h =>
              backlog'[g] = backlog[g] /\ handler'[g] = handler[g]
         /\ \/ Head(backlog[h]).type = "EXIT_REQUESTED" /\ handler'[h] = "done"
            \/ /\ Head(backlog[h]).type # "EXIT_REQUESTED"
               /\ handler'[h] \in {"loop", "callback"}
<1>1. handler[h] = "loop" /\ backlog[h] # <<>> /\ backlog[h] \in Seq(Message)
  BY DEF messageHandler, Typed, TypeOK
<1>2. halMem[h] = "live"
  BY <1>1 DEF LifeInv, HalInv, Typed, TypeOK, Memory
<1>3. backlog' = [backlog EXCEPT ![h] = Tail(backlog[h])]
  BY <1>2 DEF messageHandler
<1>4. PICK next : /\ handler' = [handler EXCEPT ![h] = next]
                  /\ \/ Head(backlog[h]).type = "EXIT_REQUESTED" /\ next = "done"
                     \/ /\ Head(backlog[h]).type # "EXIT_REQUESTED"
                        /\ next \in {"loop", "callback"}
  <2>1. handler = [handler EXCEPT ![h] = "loop"]
    BY <1>1 DEF Typed, TypeOK
  <2> QED
    BY <1>2, <2>1 DEF messageHandler
<1>5. /\ handler'[h] = next
      /\ \A g \in Hals : g # h => handler'[g] = handler[g]
  BY <1>4 DEF Typed, TypeOK
<1>6. /\ backlog'[h] = Tail(backlog[h])
      /\ \A g \in Hals : g # h => backlog'[g] = backlog[g]
  BY <1>3 DEF Typed, TypeOK
<1> QED
  BY <1>1, <1>4, <1>5, <1>6

\* What processEnqueue does with a message: it is queued in the open HAL, whose
\* thread runs, or it is dropped.
LEMMA EnqueueReceives ==
  ASSUME Typed, LifeInv, SessionInv, NEW c \in Cps, processEnqueue(c)
  PROVE  \/ UNCHANGED backlog
         \/ /\ OpenHal \in Hals /\ app.at \notin Closing
            /\ cp[c].session = OpenHal
            /\ backlog' = [backlog EXCEPT ![OpenHal] =
                             Enqueued(@, [type |-> cp[c].type, session |-> OpenHal])]
<1> USE Parameters
<1>1. /\ cp[c].at = "enqueue" /\ app.at \notin Closing
      /\ cec_hal[cp[c].vc] = cp[c].session
      /\ cp[c].session \in Hals /\ cp[c].vc \in Vcs
  BY DEF processEnqueue, SessionInv, Typed
<1>2. cp[c].vc = gvcHdmiCec
  <2>1. vcMem[cp[c].vc] = "live"
    BY <1>1 DEF LifeInv, ComponentInv
  <2> QED
    BY <1>1, <2>1 DEF LifeInv, ComponentInv
<1>3. OpenHal = cp[c].session
  BY <1>1, <1>2 DEF OpenHal
<1> QED
  BY <1>1, <1>3 DEF processEnqueue

LEMMA DrainStep ==
  Typed /\ LifeInv /\ SessionInv /\ DrainInv /\ [Next]_vars => DrainInv'
<1> SUFFICES ASSUME Typed, LifeInv, SessionInv, DrainInv, [Next]_vars
             PROVE  DrainInv'
  OBVIOUS
<1> USE Parameters
<1>1. ASSUME NEW h \in Hals, HdmiCecOpen(h) PROVE DrainInv'
  <2>1. UNCHANGED backlog /\ app'.at = "publish"
    BY <1>1, AppRecords DEF HdmiCecOpen
  <2>2. \A g \in Hals : handler'[g] = "done" => handler[g] = "done"
    BY <1>1 DEF HdmiCecOpen, Typed, TypeOK
  <2> QED
    BY <2>1, <2>2 DEF DrainInv
<1>2. CASE HdmiCecClose
  <2>1. app.at = "idle" /\ OpenHal # NULL /\ UNCHANGED <<backlog, handler>>
    BY <1>2 DEF HdmiCecClose, Calling, halVars
  <2>2. OpenHal \in Hals /\ handler[OpenHal] # "done"
    BY <2>1, RunsWhileOpen DEF Closing
  <2>3. app'.hal = OpenHal
    BY <1>2, <2>2, AppRecords DEF HdmiCecClose
  <2> QED
    BY <2>1, <2>2, <2>3 DEF DrainInv
<1>3. CASE teardownExit
  <2> DEFINE hal == app.hal
  <2>1. /\ hal \in Hals /\ UNCHANGED handler /\ app.at = "exit"
        /\ \A h \in Hals : h # hal => backlog'[h] = backlog[h]
    BY <1>3, ExitAdds DEF teardownExit, Calling
  <2>2. handler[hal] # "done" /\ app'.at = "join"
    BY <1>3, <2>1, AppRecords DEF teardownExit, DrainInv
  <2>3. /\ backlog[hal] \in Seq(Message)
        /\ backlog'[hal] = Enqueued(backlog[hal], Exit(hal))
    BY <1>3, <2>1 DEF teardownExit, Typed, TypeOK
  <2>4. \A i \in 1 .. Len(backlog[hal]) : backlog[hal][i].type # "EXIT_REQUESTED"
    BY <2>1, NoExitYet
  <2>5. \A i \in 1 .. Len(backlog'[hal]) :
          backlog'[hal][i].type = "EXIT_REQUESTED" => i = Len(backlog'[hal])
    BY <2>3, <2>4 DEF Enqueued
  <2> HIDE DEF hal
  <2> QED
    BY <2>1, <2>2, <2>5 DEF DrainInv
<1>4. CASE AppStep /\ ~teardownExit
  <2>1. UNCHANGED <<backlog, handler>>
    BY <1>4 DEF AppStep, halVars, vcCloseBody, deinitializeEnd, openPublish,
                openReady, teardownJoin, teardownFree, closeClear
  <2>2. app'.at # "exit"
    BY <1>4 DEF AppStep, vcCloseBody, deinitializeEnd, openPublish, openReady,
                teardownJoin, teardownFree, closeClear, Inside, Idle, VcClosing
  <2> QED
    BY <2>1, <2>2 DEF DrainInv
<1>5. ASSUME NEW v \in Vcs, vcHdmiCec_Close(v) \/ vcHdmiCec_Deinitialize(v)
      PROVE  DrainInv'
  <2>1. UNCHANGED <<backlog, handler>> /\ app'.at # "exit"
    BY <1>5 DEF vcHdmiCec_Close, vcHdmiCec_Deinitialize, halVars, Inside
  <2> QED
    BY <2>1 DEF DrainInv
<1>6. ASSUME NEW h \in Hals, messageHandler(h) PROVE DrainInv'
  <2> DEFINE q == backlog[h]
  <2>1. /\ q \in Seq(Message) /\ q # <<>> /\ backlog'[h] = Tail(q)
        /\ \A g \in Hals : g # h =>
             backlog'[g] = backlog[g] /\ handler'[g] = handler[g]
        /\ handler'[h] = "done" => Head(q).type = "EXIT_REQUESTED"
        /\ UNCHANGED app
    BY <1>6, HandlerTurn DEF messageHandler
  <2>2. /\ 1 \in 1 .. Len(q) /\ Head(q) = q[1]
        /\ \A i \in 1 .. Len(q) : q[i].type = "EXIT_REQUESTED" => i = Len(q)
    BY <2>1, TailElements DEF DrainInv
  <2> HIDE DEF q
  <2>3. \A i \in 1 .. Len(Tail(q)) :
          Tail(q)[i].type = "EXIT_REQUESTED" => i = Len(Tail(q))
    BY <2>1, <2>2
  <2>4. Head(q).type = "EXIT_REQUESTED" => Tail(q) = <<>>
    BY <2>1, <2>2
  <2>5. app.at = "exit" => handler'[app.hal] # "done"
    <3>1. app.at = "exit" => Head(q).type # "EXIT_REQUESTED"
      BY <2>2, NoExitYet DEF q
    <3>2. app.at = "exit" => app.hal \in Hals
      BY DEF Typed, Closing
    <3> QED
      BY <2>1, <3>1, <3>2 DEF DrainInv
  <2> QED
    BY <2>1, <2>3, <2>4, <2>5 DEF DrainInv
<1>7. ASSUME NEW h \in Hals, rxCallback(h) PROVE DrainInv'
  <2>1. UNCHANGED <<backlog, app>>
    BY <1>7 DEF rxCallback
  <2>2. \A g \in Hals : handler'[g] = "done" => handler[g] = "done"
    BY <1>7 DEF rxCallback, Typed, TypeOK
  <2>3. app.at = "exit" => app.hal \in Hals
    BY DEF Typed, Closing
  <2> QED
    BY <2>1, <2>2, <2>3 DEF DrainInv
<1>8. ASSUME NEW c \in Cps, processEnqueue(c) PROVE DrainInv'
  <2> DEFINE m == [type |-> cp[c].type, session |-> OpenHal]
             q == backlog[OpenHal]
  <2>1. UNCHANGED <<handler, app>>
    BY <1>8 DEF processEnqueue
  <2>2. CASE UNCHANGED backlog
    BY <2>1, <2>2 DEF DrainInv
  <2>3. CASE /\ OpenHal \in Hals /\ app.at \notin Closing
             /\ backlog' = [backlog EXCEPT ![OpenHal] = Enqueued(q, m)]
    <3>1. handler[OpenHal] # "done"
      BY <2>3, RunsWhileOpen
    <3>2. /\ q \in Seq(Message) /\ backlog'[OpenHal] = Enqueued(q, m)
          /\ \A h \in Hals : h # OpenHal => backlog'[h] = backlog[h]
      BY <2>3 DEF Typed, TypeOK
    <3>3. \A i \in 1 .. Len(q) : q[i].type # "EXIT_REQUESTED"
      BY <2>3, NoExitYet DEF Closing
    <3>4. m.type # "EXIT_REQUESTED"
      BY CpFields DEF Typed, TypeOK
    <3> HIDE DEF m, q
    <3>5. \A i \in 1 .. Len(Enqueued(q, m)) :
            Enqueued(q, m)[i].type # "EXIT_REQUESTED"
      BY <3>2, <3>3, <3>4, EnqueuedElements
    <3> QED
      BY <2>1, <2>3, <3>1, <3>2, <3>5 DEF DrainInv
  <2> QED
    BY <1>8, <2>2, <2>3, EnqueueReceives
<1>9. CASE UNCHANGED <<backlog, handler, app>>
  BY <1>9 DEF DrainInv
<1> QED
  BY <1>1, <1>2, <1>3, <1>4, <1>5, <1>6, <1>7, <1>8, <1>9
     DEF Next, AppCall, HandlerStep, CpStep, vars, halVars, vcHdmiCec_Initialize,
         vcHdmiCec_Open, processCheck

\* The session, its inbox and the callback, as HalLifecycle maps them.
Inbox == IF OpenHal = NULL THEN <<>> ELSE Unhandled(backlog[OpenHal])
Busy == {h \in Hals : handler[h] = "callback"}

\* What Unhandled leaves of a queue in which a request to end comes last.
LEMMA UnhandledAll ==
  ASSUME NEW q \in Seq(Message),
         \A i \in 1 .. Len(q) : q[i].type # "EXIT_REQUESTED"
  PROVE  Unhandled(q) = q
BY DEF Unhandled

LEMMA UnhandledExit ==
  ASSUME NEW q \in Seq(Message), NEW h \in Hals,
         \A i \in 1 .. Len(q) : q[i].type # "EXIT_REQUESTED"
  PROVE  Unhandled(Enqueued(q, Exit(h))) = q
<1>1. CASE Len(q) < MAX_QUEUE_SIZE
  <2> DEFINE r == Append(q, Exit(h))
  <2>1. Enqueued(q, Exit(h)) = r
    BY <1>1 DEF Enqueued
  <2>2. Exit(h) \in Message /\ Exit(h).type = "EXIT_REQUESTED"
    BY DEF Exit, Message
  <2>3. r \in Seq(Message) /\ Len(r) = Len(q) + 1 /\ r[Len(r)] = Exit(h) /\ r # <<>>
    BY <2>2
  <2>4. SubSeq(r, 1, Len(r) - 1) = q
    BY <2>2
  <2> HIDE DEF r
  <2> QED
    BY <2>1, <2>2, <2>3, <2>4 DEF Unhandled
<1>2. CASE ~(Len(q) < MAX_QUEUE_SIZE)
  BY <1>2, UnhandledAll DEF Enqueued
<1> QED
  BY <1>1, <1>2

\* A message that is no request to end is the next to be handled, and what is
\* left is left of the rest.
LEMMA UnhandledNext ==
  ASSUME NEW q \in Seq(Message), q # <<>>, Head(q).type # "EXIT_REQUESTED"
  PROVE  /\ Unhandled(q) # <<>> /\ Head(Unhandled(q)) = Head(q)
         /\ Unhandled(Tail(q)) = Tail(Unhandled(q))
<1>1. Len(q) \in Nat /\ Len(q) >= 1 /\ Head(q) = q[1]
  OBVIOUS
<1>2. CASE q[Len(q)].type # "EXIT_REQUESTED"
  <2>1. Unhandled(q) = q
    BY <1>2 DEF Unhandled
  <2>2. Tail(q) # <<>> => Tail(q)[Len(Tail(q))] = q[Len(q)]
    OBVIOUS
  <2>3. Unhandled(Tail(q)) = Tail(q)
    BY <1>2, <2>2 DEF Unhandled
  <2> QED
    BY <2>1, <2>3
<1>3. CASE q[Len(q)].type = "EXIT_REQUESTED"
  <2>1. Len(q) > 1
    BY <1>1, <1>3
  <2> DEFINE r == SubSeq(q, 1, Len(q) - 1)
             t == Tail(q)
  <2>2. Unhandled(q) = r
    BY <1>3 DEF Unhandled
  <2>3. r \in Seq(Message) /\ Len(r) = Len(q) - 1 /\ \A i \in 1 .. Len(q) - 1 : r[i] = q[i]
    BY <2>1
  <2>4. /\ t \in Seq(Message) /\ Len(t) = Len(q) - 1
        /\ \A i \in 1 .. Len(q) - 1 : t[i] = q[i + 1]
    BY <2>1
  <2> HIDE DEF r, t
  <2>5. t # <<>> /\ t[Len(t)].type = "EXIT_REQUESTED"
    BY <1>1, <1>3, <2>1, <2>4
  <2>6. Unhandled(t) = SubSeq(t, 1, Len(t) - 1)
    BY <2>5 DEF Unhandled
  <2>7. r # <<>> /\ Head(r) = Head(q)
    BY <1>1, <2>1, <2>3
  <2>8. /\ Tail(r) \in Seq(Message) /\ Len(Tail(r)) = Len(q) - 2
        /\ \A i \in 1 .. Len(q) - 2 : Tail(r)[i] = q[i + 1]
    <3>1. r \in Seq(Message) /\ r # <<>> /\ Len(r) = Len(q) - 1
      BY <2>3, <2>7
    <3>2. /\ Tail(r) \in Seq(Message) /\ Len(Tail(r)) = Len(r) - 1
          /\ \A i \in 1 .. Len(r) - 1 : Tail(r)[i] = r[i + 1]
      BY <3>1
    <3> QED
      BY <1>1, <2>1, <2>3, <3>1, <3>2
  <2>9. /\ SubSeq(t, 1, Len(t) - 1) \in Seq(Message)
        /\ Len(SubSeq(t, 1, Len(t) - 1)) = Len(q) - 2
        /\ \A i \in 1 .. Len(q) - 2 : SubSeq(t, 1, Len(t) - 1)[i] = q[i + 1]
    BY <2>1, <2>4
  <2>10. Tail(r) = SubSeq(t, 1, Len(t) - 1)
    BY <2>8, <2>9
  <2> QED
    BY <2>2, <2>6, <2>7, <2>10 DEF t
<1> QED
  BY <1>2, <1>3

\* Every queue but that of the open HAL is empty, and so is that one when the
\* HAL has just been made or its thread has ended.
LEMMA OthersEmpty ==
  ASSUME Typed, LifeInv, ReadyInv, DrainInv, NEW h \in Hals,
         h # OpenHal \/ state[h] = "CLOSED"
  PROVE  backlog[h] = <<>> /\ handler[h] # "callback"
<1>1. AppInv /\ HalInv
  BY DEF LifeInv
<1>2. CASE state[h] = "CLOSED"
  BY <1>2 DEF ReadyInv
<1>3. CASE h # OpenHal /\ halMem[h] = "live"
  BY <1>1, <1>3 DEF AppInv, HalInv, Opening, ReadyInv
<1>4. CASE halMem[h] = "freed"
  BY <1>1, <1>4 DEF HalInv, DrainInv
<1>5. CASE halMem[h] = "unused"
  BY <1>1, <1>5 DEF HalInv, ReadyInv
<1> QED
  BY <1>2, <1>3, <1>4, <1>5 DEF Typed, TypeOK, Memory

LEMMA InitService == Init => Service!Init
<1> SUFFICES ASSUME Init PROVE Service!Init
  OBVIOUS
<1>1. OpenHal = NULL
  BY DEF Init, OpenHal
<1>2. {h \in Hals : handler[h] = "callback"} = {}
  BY DEF Init
<1> QED
  BY <1>1, <1>2 DEF Service!Init

\* What counts as a step of the service, and what as none.
LEMMA Stutters ==
  ASSUME OpenHal' = OpenHal, Inbox' = Inbox, Busy' = Busy
  PROVE  [Service!Next]_Service!serviceVars
BY DEF Service!serviceVars, Inbox, Busy

LEMMA Opens ==
  ASSUME OpenHal = NULL, OpenHal' \in Hals, Inbox' = Inbox, Busy' = Busy
  PROVE  [Service!Next]_Service!serviceVars
BY DEF Service!Next, Service!Open, Inbox, Busy

LEMMA Receives ==
  ASSUME OpenHal # NULL, Len(Inbox) < MAX_QUEUE_SIZE, OpenHal' = OpenHal,
         Busy' = Busy, NEW t \in {"COMMAND", "STATE"},
         Inbox' = Append(Inbox, [type |-> t, session |-> OpenHal])
  PROVE  [Service!Next]_Service!serviceVars
BY DEF Service!Next, Service!Receive, Inbox, Busy

LEMMA Handles ==
  ASSUME Inbox # <<>>, Busy = {}, Inbox' = Tail(Inbox), OpenHal' = OpenHal,
         Busy' = {} \/ Busy' = {OpenHal}
  PROVE  [Service!Next]_Service!serviceVars
BY DEF Service!Next, Service!Handle, Inbox, Busy

LEMMA Returns ==
  ASSUME Busy # {}, Busy' = {}, OpenHal' = OpenHal, Inbox' = Inbox
  PROVE  [Service!Next]_Service!serviceVars
BY DEF Service!Next, Service!Return, Inbox, Busy

LEMMA Closes ==
  ASSUME OpenHal # NULL, Inbox = <<>>, Busy = {}, OpenHal' = NULL,
         Inbox' = <<>>, Busy' = {}
  PROVE  [Service!Next]_Service!serviceVars
BY DEF Service!Next, Service!Close, Inbox, Busy

\* Steps that leave the queues, the threads and the HAL of the component.
LEMMA StutterFrame ==
  ASSUME OpenHal' = OpenHal, UNCHANGED <<backlog, handler>>
  PROVE  [Service!Next]_Service!serviceVars
<1>1. Inbox' = Inbox /\ Busy' = Busy
  BY DEF Inbox, Busy
<1> QED
  BY <1>1, Stutters

\* The steps of the application's thread.
LEMMA AppServes ==
  ASSUME Typed, OneAtATime, LifeInv, ReadyInv, DrainInv, AppCall \/ AppStep
  PROVE  [Service!Next]_Service!serviceVars
<1> USE Parameters
<1>0. ComponentInv /\ AppInv /\ HalInv
  BY DEF LifeInv
<1>1. ASSUME NEW v \in Vcs, vcHdmiCec_Initialize(v)
      PROVE  [Service!Next]_Service!serviceVars
  <2>1. gvcHdmiCec = NULL /\ vcMem[v] = "unused" /\ gvcHdmiCec' = v
        /\ UNCHANGED <<cec_hal, backlog, handler>>
    BY <1>1, OneLife DEF vcHdmiCec_Initialize, halVars
  <2>2. OpenHal' = OpenHal
    BY <1>0, <2>1 DEF OpenHal, ComponentInv
  <2> QED
    BY <2>1, <2>2, StutterFrame
<1>2. ASSUME UNCHANGED <<gvcHdmiCec, cec_hal, backlog, handler>>
      PROVE  [Service!Next]_Service!serviceVars
  <2>1. OpenHal' = OpenHal
    BY <1>2 DEF OpenHal
  <2> QED
    BY <1>2, <2>1, StutterFrame
<1>3. ASSUME NEW h \in Hals, HdmiCecOpen(h)
      PROVE  [Service!Next]_Service!serviceVars
  <2>1. UNCHANGED <<gvcHdmiCec, cec_hal, backlog>> /\ halMem[h] = "unused"
    BY <1>3 DEF HdmiCecOpen, vcVars
  <2>2. OpenHal' = OpenHal
    BY <2>1 DEF OpenHal
  <2>3. \A g \in Hals : handler'[g] = "callback" <=> handler[g] = "callback"
    <3>1. handler[h] = "none"
      BY <1>0, <2>1 DEF HalInv
    <3>2. \A g \in Hals : handler'[g] = IF g = h THEN "loop" ELSE handler[g]
      BY <1>3 DEF HdmiCecOpen, Typed, TypeOK
    <3> QED
      BY <3>1, <3>2
  <2>4. Inbox' = Inbox /\ Busy' = Busy
    BY <2>1, <2>2, <2>3 DEF Inbox, Busy
  <2> QED
    BY <2>2, <2>4, Stutters
<1>4. CASE deinitializeEnd
  <2>1. /\ OpenHal = NULL /\ gvcHdmiCec' = NULL
        /\ UNCHANGED <<cec_hal, backlog, handler>>
    BY <1>0, <1>4 DEF deinitializeEnd, Calling, AppInv, halVars
  <2>2. OpenHal' = OpenHal
    BY <2>1 DEF OpenHal
  <2> QED
    BY <2>1, <2>2, StutterFrame
<1>5. CASE openPublish
  <2>1. /\ OpenHal = NULL /\ gvcHdmiCec # NULL /\ app.hal # NULL
        /\ state[app.hal] = "CLOSED"
        /\ UNCHANGED <<gvcHdmiCec, backlog, handler>>
    BY <1>0, <1>5 DEF openPublish, Calling, AppInv, Opening, halVars
  <2>2. app.hal \in Hals /\ gvcHdmiCec \in Vcs
    BY <2>1, AppFields DEF Typed, TypeOK
  <2>3. OpenHal' = app.hal
    <3>1. cec_hal'[gvcHdmiCec] = app.hal
      BY <1>5, <2>2 DEF openPublish, Typed, TypeOK
    <3> QED
      BY <2>1, <3>1 DEF OpenHal
  <2>4. backlog[app.hal] = <<>>
    BY <2>1, <2>2, OthersEmpty
  <2>5. Unhandled(<<>>) = <<>>
    BY DEF Unhandled
  <2>6. Inbox' = Inbox /\ Busy' = Busy
    BY <2>1, <2>2, <2>3, <2>4, <2>5 DEF Inbox, Busy
  <2> QED
    BY <2>1, <2>2, <2>3, <2>6, Opens
<1>6. CASE teardownExit
  <2>1. /\ app.hal \in Hals /\ app.at = "exit" /\ OpenHal = app.hal
        /\ UNCHANGED <<gvcHdmiCec, cec_hal, handler>>
    BY <1>0, <1>6, ExitAdds DEF teardownExit, Calling, AppInv, Closing, vcVars
  <2>2. OpenHal' = OpenHal
    BY <2>1 DEF OpenHal
  <2> DEFINE q == backlog[app.hal]
  <2>3. /\ q \in Seq(Message) /\ backlog'[app.hal] = Enqueued(q, Exit(app.hal))
    BY <1>6, <2>1 DEF teardownExit, Typed, TypeOK
  <2>4. \A i \in 1 .. Len(q) : q[i].type # "EXIT_REQUESTED"
    BY <2>1, NoExitYet
  <2> HIDE DEF q
  <2>5. Unhandled(q) = q /\ Unhandled(Enqueued(q, Exit(app.hal))) = q
    BY <2>1, <2>3, <2>4, UnhandledAll, UnhandledExit
  <2>6. Inbox = q /\ Inbox' = q
    BY <2>1, <2>2, <2>3, <2>5 DEF Inbox, q
  <2>7. Busy' = Busy
    BY <2>1 DEF Busy
  <2> QED
    BY <2>2, <2>6, <2>7, Stutters
<1>7. CASE closeClear
  <2>1. /\ app.at = "clear" /\ gvcHdmiCec # NULL /\ app.hal # NULL
        /\ OpenHal = app.hal /\ handler[app.hal] = "done"
        /\ UNCHANGED <<gvcHdmiCec, backlog, handler>>
    BY <1>0, <1>7 DEF closeClear, Calling, AppInv, Closing, halVars
  <2>2. app.hal \in Hals /\ gvcHdmiCec \in Vcs
    BY <2>1 DEF Typed, TypeOK, Closing
  <2>3. OpenHal' = NULL
    <3>1. cec_hal'[gvcHdmiCec] = NULL
      BY <1>7, <2>2 DEF closeClear, Typed, TypeOK
    <3> QED
      BY <2>1, <3>1 DEF OpenHal
  <2>4. Inbox = <<>>
    <3>1. backlog[app.hal] = <<>>
      BY <2>1, <2>2 DEF DrainInv
    <3> QED
      BY <2>1, <3>1 DEF Inbox, Unhandled
  <2>5. Busy = {} /\ Busy' = {}
    <3>1. \A h \in Hals : handler[h] # "callback"
      BY <2>1, OthersEmpty
    <3> QED
      BY <2>1, <3>1 DEF Busy
  <2>6. Inbox' = <<>>
    BY <2>3 DEF Inbox
  <2> QED
    BY <2>1, <2>3, <2>4, <2>5, <2>6, Closes
<1> QED
  BY <1>1, <1>2, <1>3, <1>4, <1>5, <1>6, <1>7
     DEF AppCall, AppStep, vcVars, halVars, vcHdmiCec_Open, vcHdmiCec_Close,
         vcHdmiCec_Deinitialize, HdmiCecClose, vcCloseBody, openReady,
         teardownJoin, teardownFree

\* The steps of the other threads.
LEMMA ThreadsServe ==
  ASSUME Typed, LifeInv, SessionInv, ReadyInv, DrainInv,
         \/ \E h \in Hals : HandlerStep(h)
         \/ \E c \in Cps : CpStep(c)
  PROVE  [Service!Next]_Service!serviceVars
<1> USE Parameters
<1>0. UNCHANGED <<gvcHdmiCec, cec_hal>>
  BY DEF HandlerStep, CpStep, messageHandler, rxCallback, processEnqueue,
         processCheck, vcVars
<1>1. OpenHal' = OpenHal
  BY <1>0 DEF OpenHal
<1>2. ASSUME NEW h \in Hals, messageHandler(h)
      PROVE  [Service!Next]_Service!serviceVars
  <2> DEFINE q == backlog[h]
  <2>1. /\ q \in Seq(Message) /\ q # <<>> /\ backlog'[h] = Tail(q)
        /\ \A g \in Hals : g # h =>
             backlog'[g] = backlog[g] /\ handler'[g] = handler[g]
        /\ \/ Head(q).type = "EXIT_REQUESTED" /\ handler'[h] = "done"
           \/ /\ Head(q).type # "EXIT_REQUESTED"
              /\ handler'[h] \in {"loop", "callback"}
    BY <1>2, HandlerTurn
  <2>2. h = OpenHal /\ OpenHal # NULL
    BY <2>1, OthersEmpty
  <2>3. Inbox = Unhandled(q) /\ Inbox' = Unhandled(Tail(q))
    BY <1>1, <2>1, <2>2 DEF Inbox
  <2>4. Busy = {}
    <3>1. handler[h] = "loop"
      BY <1>2 DEF messageHandler
    <3>2. \A g \in Hals : g # h => handler[g] # "callback"
      BY <2>2, OthersEmpty
    <3> QED
      BY <3>1, <3>2 DEF Busy
  <2>5. Busy' = IF handler'[h] = "callback" THEN {h} ELSE {}
    <3>1. \A g \in Hals : g # h => handler'[g] # "callback"
      BY <2>1, <2>2, OthersEmpty
    <3> QED
      BY <3>1 DEF Busy
  <2>6. CASE Head(q).type = "EXIT_REQUESTED"
    <3>1. Len(q) = 1 /\ q[1].type = "EXIT_REQUESTED"
      <4>1. 1 \in 1 .. Len(q) /\ Head(q) = q[1]
        BY <2>1, TailElements
      <4> QED
        BY <2>6, <4>1 DEF DrainInv
    <3>2. Unhandled(q) = <<>>
      <4>1. SubSeq(q, 1, 0) = <<>>
        BY <2>1
      <4>2. Len(q) - 1 = 0 /\ q # <<>> /\ q[Len(q)].type = "EXIT_REQUESTED"
        BY <2>1, <3>1
      <4> QED
        BY <4>1, <4>2 DEF Unhandled
    <3>3. Unhandled(Tail(q)) = <<>>
      <4>1. Tail(q) = <<>>
        <5> HIDE DEF q
        <5>1. Tail(q) \in Seq(Message) /\ Len(Tail(q)) = 0
          BY <2>1, <3>1
        <5>2. \A s \in Seq(Message) : Len(s) = 0 => s = <<>>
          OBVIOUS
        <5> QED
          BY <5>1, <5>2
      <4> QED
        BY <4>1 DEF Unhandled
    <3>4. Busy' = Busy
      BY <2>1, <2>4, <2>5, <2>6
    <3> QED
      BY <1>1, <2>3, <3>2, <3>3, <3>4, Stutters
  <2>7. CASE Head(q).type # "EXIT_REQUESTED"
    <3>1. /\ Inbox # <<>> /\ Head(Inbox) = Head(q) /\ Inbox' = Tail(Inbox)
      BY <2>1, <2>3, <2>7, UnhandledNext
    <3>2. Busy' = {} \/ Busy' = {OpenHal}
      BY <2>1, <2>2, <2>5, <2>7, <3>1
    <3> QED
      BY <1>1, <2>4, <3>1, <3>2, Handles
  <2> QED
    BY <2>6, <2>7
<1>3. ASSUME NEW h \in Hals, rxCallback(h)
      PROVE  [Service!Next]_Service!serviceVars
  <2>1. /\ handler[h] = "callback" /\ UNCHANGED backlog
        /\ \A g \in Hals : handler'[g] = IF g = h THEN "loop" ELSE handler[g]
    BY <1>3 DEF rxCallback, Typed, TypeOK
  <2>2. Busy # {} /\ Inbox' = Inbox
    BY <1>1, <2>1 DEF Busy, Inbox
  <2>3. Busy' = {}
    <3>1. h = OpenHal
      BY <2>1, OthersEmpty
    <3>2. \A g \in Hals : handler'[g] # "callback"
      BY <2>1, <3>1, OthersEmpty
    <3> QED
      BY <3>2 DEF Busy
  <2> QED
    BY <1>1, <2>2, <2>3, Returns
<1>4. ASSUME NEW c \in Cps, processEnqueue(c)
      PROVE  [Service!Next]_Service!serviceVars
  <2> DEFINE m == [type |-> cp[c].type, session |-> OpenHal]
             q == backlog[OpenHal]
  <2>1. UNCHANGED handler
    BY <1>4 DEF processEnqueue
  <2>2. CASE UNCHANGED backlog
    BY <1>1, <2>1, <2>2, StutterFrame
  <2>3. CASE /\ OpenHal \in Hals /\ app.at \notin Closing
             /\ backlog' = [backlog EXCEPT ![OpenHal] = Enqueued(q, m)]
    <3>1. q \in Seq(Message) /\ backlog'[OpenHal] = Enqueued(q, m)
      BY <2>3 DEF Typed, TypeOK
    <3>2. \A i \in 1 .. Len(q) : q[i].type # "EXIT_REQUESTED"
      BY <2>3, NoExitYet DEF Closing
    <3>3. m \in Message /\ m.type # "EXIT_REQUESTED" /\ cp[c].type \in {"COMMAND", "STATE"}
      BY <2>3, CpFields DEF Typed, TypeOK, Message
    <3>4. Busy' = Busy
      BY <2>1 DEF Busy
    <3>5. Inbox = Unhandled(q) /\ Inbox' = Unhandled(Enqueued(q, m)) /\ OpenHal # NULL
      BY <1>1, <2>3, <3>1 DEF Inbox
    <3> HIDE DEF q
    <3>6. Unhandled(q) = q
      BY <3>1, <3>2, UnhandledAll
    <3>7. CASE Len(q) < MAX_QUEUE_SIZE
      <4>1. Enqueued(q, m) = Append(q, m)
        BY <3>7 DEF Enqueued
      <4>2. Unhandled(Append(q, m)) = Append(q, m)
        <5> HIDE DEF m
        <5>1. /\ Append(q, m) \in Seq(Message)
              /\ \A i \in 1 .. Len(Append(q, m)) :
                   Append(q, m)[i].type # "EXIT_REQUESTED"
          BY <3>1, <3>2, <3>3
        <5> QED
          BY <5>1, UnhandledAll
      <4>3. Inbox' = Append(Inbox, m) /\ Len(Inbox) < MAX_QUEUE_SIZE
        BY <3>5, <3>6, <3>7, <4>1, <4>2
      <4> QED
        BY <1>1, <3>3, <3>4, <3>5, <4>3, Receives
    <3>8. CASE ~(Len(q) < MAX_QUEUE_SIZE)
      <4>1. Enqueued(q, m) = q
        BY <3>8 DEF Enqueued
      <4>2. Inbox' = Inbox
        BY <3>5, <4>1
      <4> QED
        BY <1>1, <3>4, <4>2, Stutters
    <3> QED
      BY <3>7, <3>8
  <2> QED
    BY <1>4, <2>2, <2>3, EnqueueReceives
<1>5. ASSUME NEW c \in Cps, NEW t \in {"COMMAND", "STATE"}, processCheck(c, t)
      PROVE  [Service!Next]_Service!serviceVars
  BY <1>1, <1>5, StutterFrame DEF processCheck, halVars
<1> QED
  BY <1>2, <1>3, <1>4, <1>5 DEF HandlerStep, CpStep

LEMMA StepService ==
  /\ OneAtATime /\ Typed /\ LifeInv /\ SessionInv /\ ReadyInv /\ DrainInv
  /\ [Next]_vars
  => [Service!Next]_Service!serviceVars
<1> SUFFICES ASSUME OneAtATime, Typed, LifeInv, SessionInv, ReadyInv, DrainInv,
                    [Next]_vars
             PROVE  [Service!Next]_Service!serviceVars
  OBVIOUS
<1>1. CASE UNCHANGED vars
  <2>1. OpenHal' = OpenHal /\ UNCHANGED <<backlog, handler>>
    BY <1>1 DEF vars, vcVars, halVars, OpenHal
  <2> QED
    BY <2>1, StutterFrame
<1>2. CASE AppCall \/ AppStep
  BY <1>2, AppServes
<1>3. CASE \/ \E h \in Hals : HandlerStep(h)
           \/ \E c \in Cps : CpStep(c)
  BY <1>3, ThreadsServe
<1> QED
  BY <1>1, <1>2, <1>3 DEF Next

------------------------------------------------------------------------------
\* Theorems

\* The types of all variables of vcHdmiCec.c, the bound of the queue of a HAL
\* among them, however the application and the control plane behave.
THEOREM TypeCorrect == Spec => []TypeOK
<1>1. Init => Typed
  BY TypedInit
<1>2. Typed /\ [Next]_vars => Typed'
  BY TypedStep
<1>3. Typed => TypeOK
  BY DEF Typed
<1> QED
  BY <1>1, <1>2, <1>3, PTL DEF Spec

\* What each part of the discipline keeps true.
LEMMA SessionsKept == QuietClose => (Spec => [](Typed /\ SessionInv))
<1> SUFFICES ASSUME QuietClose PROVE Spec => [](Typed /\ SessionInv)
  OBVIOUS
<1>1. Init => Typed /\ SessionInv
  BY TypedInit, SessionInit
<1>2. Typed /\ SessionInv /\ [Next]_vars => (Typed /\ SessionInv)'
  BY TypedStep, SessionStep
<1> QED
  BY <1>1, <1>2, PTL DEF Spec

LEMMA LivesKept == OneAtATime => (Spec => [](Typed /\ LifeInv))
<1> SUFFICES ASSUME OneAtATime PROVE Spec => [](Typed /\ LifeInv)
  OBVIOUS
<1>1. Init => Typed /\ LifeInv
  BY TypedInit, LifeInit
<1>2. Typed /\ LifeInv /\ [Next]_vars => (Typed /\ LifeInv)'
  BY TypedStep, LifeStep
<1> QED
  BY <1>1, <1>2, PTL DEF Spec

\* What is queued in a HAL was accepted for that HAL: no session sees a message
\* of an earlier one.  All it takes is that no message is under way while the
\* HAL is being closed.
THEOREM SessionCorrect == QuietClose => (Spec => []MessagesOfThisSession)
<1> SUFFICES ASSUME QuietClose PROVE Spec => []MessagesOfThisSession
  OBVIOUS
<1>1. Typed /\ SessionInv => MessagesOfThisSession
  BY DEF SessionInv
<1> QED
  BY <1>1, SessionsKept, PTL

\* At most one MessageHandler thread runs, and none without a HAL.
OneHandler ==
  \A g, h \in Hals :
    /\ handler[g] \in {"loop", "callback"} => halMem[g] = "live"
    /\ handler[g] \in {"loop", "callback"} /\ handler[h] \in {"loop", "callback"}
         => g = h

\* At most one handler thread runs, and none of them outlives its HAL, however
\* often a component is opened and whatever its control plane sends meanwhile.
THEOREM OneHandlerCorrect == OneAtATime => (Spec => []OneHandler)
<1> SUFFICES ASSUME OneAtATime PROVE Spec => []OneHandler
  OBVIOUS
<1>1. Typed /\ LifeInv => OneHandler
  <2> SUFFICES ASSUME Typed, LifeInv PROVE OneHandler
    OBVIOUS
  <2>1. AppInv /\ HalInv
    BY DEF LifeInv
  <2>2. \A h \in Hals : handler[h] \in {"loop", "callback"} => halMem[h] = "live"
    BY <2>1 DEF HalInv, Typed, TypeOK, Memory
  <2>3. app.at = "publish" => OpenHal = NULL
    BY <2>1 DEF AppInv
  <2> QED
    BY <2>1, <2>2, <2>3, Parameters DEF OneHandler, HalInv
<1> QED
  BY <1>1, LivesKept, PTL

\* The HAL whose handler thread is in the receive callback is the open one and
\* is ready, even while HdmiCecClose waits for that thread.
THEOREM CallbackCorrect ==
  OneAtATime /\ QuietClose => (Spec => []CallbackSeesItsHal)
<1> SUFFICES ASSUME OneAtATime, QuietClose PROVE Spec => []CallbackSeesItsHal
  OBVIOUS
<1>1. Init => ReadyInv
  BY ReadyInit
<1>2. Typed /\ LifeInv /\ SessionInv /\ ReadyInv /\ [Next]_vars => ReadyInv'
  BY ReadyStep
<1>3. Typed /\ LifeInv /\ ReadyInv => CallbackSeesItsHal
  <2> SUFFICES ASSUME Typed, LifeInv, ReadyInv, NEW h \in Hals,
                      handler[h] = "callback"
               PROVE  OpenHal = h /\ halMem[h] = "live" /\ state[h] = "READY"
    BY DEF CallbackSeesItsHal
  <2>1. AppInv /\ HalInv /\ state[h] = "READY"
    BY DEF LifeInv, ReadyInv
  <2>2. halMem[h] = "live"
    BY <2>1 DEF HalInv, Typed, TypeOK, Memory
  <2>3. ~(app.at = "publish" /\ app.hal = h)
    BY <2>1 DEF AppInv, Opening
  <2> QED
    BY <2>1, <2>2, <2>3 DEF HalInv
<1> QED
  BY <1>1, <1>2, <1>3, LivesKept, SessionsKept, PTL DEF Spec

\* Every component, HAL and control plane that exists can still be closed, if
\* a component is opened only once.
THEOREM NothingLeakedCorrect ==
  OneAtATime /\ OpenOnce => (Spec => []NothingLeaked)
<1> SUFFICES ASSUME OneAtATime, OpenOnce PROVE Spec => []NothingLeaked
  OBVIOUS
<1>1. Init => CpInv
  BY CpInit
<1>2. Typed /\ LifeInv /\ CpInv /\ [Next]_vars => CpInv'
  BY CpInvStep
<1>3. Typed /\ LifeInv /\ CpInv => NothingLeaked
  <2> SUFFICES ASSUME Typed, LifeInv, CpInv PROVE NothingLeaked
    OBVIOUS
  <2>1. \A c \in Cps : cp[c].at \in {"idle", "enqueue"} => gvcHdmiCec # NULL
    BY Parameters DEF CpInv, Typed
  <2> QED
    BY <2>1 DEF LifeInv, ComponentInv, HalInv, CpInv, NothingLeaked
<1> QED
  BY <1>1, <1>2, <1>3, LivesKept, PTL DEF Spec

\* The inductive invariant of the whole discipline.
LEMMA Invariant == Discipline => (Spec => [](Typed /\ IInv))
<1> SUFFICES ASSUME Discipline PROVE Spec => [](Typed /\ IInv)
  OBVIOUS
<1>0. OneAtATime /\ OpenOnce /\ QuietClose
  BY Zenon DEF Discipline
<1>1. Init => Typed /\ IInv
  BY TypedInit, LifeInit, SessionInit, ReadyInit, CpInit DEF IInv, NoFault, Init
<1>2. Typed /\ IInv /\ [Next]_vars => (Typed /\ IInv)'
  BY Zenon, <1>0, TypedStep, LifeStep, SessionStep, ReadyStep, CpInvStep, NoFaultStep
     DEF IInv
<1> QED
  BY <1>1, <1>2, PTL DEF Spec

\* The handler thread and the receive callback meet live memory only, even when
\* messages race with HdmiCecClose: TeardownHal joins the thread before it frees.
\* This holds however often a component is opened.
HandlerMeetsLiveMemory == fault # "freed HAL in handler"

\* What HandlerMeetsLiveMemory says of MessageHandler and the callback, for any
\* control plane.
THEOREM HandlerCorrect == OneAtATime => (Spec => []HandlerMeetsLiveMemory)
<1> SUFFICES ASSUME OneAtATime PROVE Spec => []HandlerMeetsLiveMemory
  OBVIOUS
<1>1. Init => HandlerMeetsLiveMemory
  BY DEF Init, HandlerMeetsLiveMemory
<1>2. Typed /\ LifeInv /\ HandlerMeetsLiveMemory /\ [Next]_vars
      => HandlerMeetsLiveMemory'
  <2> SUFFICES ASSUME Typed, LifeInv, HandlerMeetsLiveMemory, [Next]_vars
               PROVE  HandlerMeetsLiveMemory'
    OBVIOUS
  <2>1. ASSUME NEW h \in Hals, HandlerStep(h) PROVE HandlerMeetsLiveMemory'
    <3>1. fault = "none"
      BY <2>1 DEF HandlerStep, messageHandler, rxCallback
    <3> QED
      BY <2>1, <3>1, HandlerSafe DEF HandlerStep, HandlerMeetsLiveMemory
  <2>2. ASSUME NEW c \in Cps, CpStep(c) PROVE HandlerMeetsLiveMemory'
    BY <2>2 DEF CpStep, processEnqueue, processCheck, Follow,
                HandlerMeetsLiveMemory
  <2>3. CASE UNCHANGED fault
    BY <2>3 DEF HandlerMeetsLiveMemory
  <2> QED
    BY <2>1, <2>2, <2>3
       DEF Next, AppCall, AppStep, vars, vcHdmiCec_Initialize, vcHdmiCec_Open,
           vcHdmiCec_Close, vcHdmiCec_Deinitialize, HdmiCecOpen, HdmiCecClose,
           vcCloseBody, deinitializeEnd, openPublish, openReady, teardownExit,
           teardownJoin, teardownFree, closeClear
<1> QED
  BY <1>1, <1>2, LivesKept, PTL DEF Spec

\* When messages do race with HdmiCecClose, the accesses OnlyAcrossClose lists
\* are the only ones that go wrong: that of the check of ProcessMsg between the
\* free of the HAL and the store that takes it away, and that of the rest of
\* ProcessMsg, for a HAL closed since the check.
THEOREM OnlyAcrossCloseCorrect ==
  OneAtATime /\ OpenOnce => (Spec => []OnlyAcrossClose)
<1> SUFFICES ASSUME OneAtATime, OpenOnce PROVE Spec => []OnlyAcrossClose
  OBVIOUS
<1>1. Init => CpInv /\ CheckedInv /\ OnlyAcrossClose
  BY CpInit, CpRecords DEF Init, CheckedInv, OnlyAcrossClose
<1>2. Typed /\ LifeInv /\ CpInv /\ [Next]_vars => CpInv'
  BY CpInvStep
<1>3. Typed /\ CheckedInv /\ [Next]_vars => CheckedInv'
  BY CheckedStep
<1>4. /\ Typed /\ LifeInv /\ CpInv /\ CheckedInv /\ OnlyAcrossClose /\ [Next]_vars
      => OnlyAcrossClose'
  BY OnlyAcrossCloseStep
<1> QED
  BY <1>1, <1>2, <1>3, <1>4, LivesKept, PTL DEF Spec

\* No thread ever follows a pointer to a component or a HAL that is not there,
\* for any number of sessions, control planes and messages: this takes the whole
\* discipline.
THEOREM NoFaultCorrect == Discipline => (Spec => []NoFault)
<1> SUFFICES ASSUME Discipline PROVE Spec => []NoFault
  OBVIOUS
<1>1. Typed /\ IInv => NoFault
  BY DEF IInv
<1> QED
  BY <1>1, Invariant, PTL

\* The component, the HALs made and freed, the queue and the three threads
\* implement the service of HalService: the messages of a session are handled
\* in order and all of them before it is over, whatever a full queue drops, and
\* however often a component is opened.
THEOREM ImplementsService == OneAtATime /\ QuietClose => (Spec => ServiceSpec)
<1> SUFFICES ASSUME OneAtATime, QuietClose PROVE Spec => ServiceSpec
  OBVIOUS
<1>1. Init => ReadyInv /\ DrainInv /\ Service!Init
  BY ReadyInit, DrainInit, InitService
<1>2. Typed /\ LifeInv /\ SessionInv /\ ReadyInv /\ [Next]_vars => ReadyInv'
  BY ReadyStep
<1>3. Typed /\ LifeInv /\ SessionInv /\ DrainInv /\ [Next]_vars => DrainInv'
  BY DrainStep
<1>4. /\ Typed /\ LifeInv /\ SessionInv /\ ReadyInv /\ DrainInv /\ [Next]_vars
      => [Service!Next]_Service!serviceVars
  BY StepService
<1> QED
  BY <1>1, <1>2, <1>3, <1>4, LivesKept, SessionsKept, PTL
     DEF Spec, ServiceSpec, Service!Spec
=============================================================================
