-------------------------- MODULE AgentStreamsProofs --------------------------
(***************************************************************************)
(* Theorems about AgentStreams, for every set of callers and streams, every*)
(* TTL and both duplicate policies.                                        *)
(***************************************************************************)
EXTENDS AgentStreams, TLAPS

\* The constants are what the modules assume of them.
USE RegistryAssumption, StreamsAssumption DEF Connected

-----------------------------------------------------------------------------
(* Types.                                                                  *)

\* The registry's methods keep its type; what a caller passes is typed.
LEMMA MethodsTyped ==
  ASSUME RegistryTypeOK, NEW c \in CallerIDs, NEW s \in Streams,
         Register(c, s) \/ ForceRegister(c, s) \/ Deregister(c) \/ TouchHeartbeat(c)
  PROVE  RegistryTypeOK'
<1> USE DEF RegistryTypeOK
<1>1. CASE Register(c, s)
  BY <1>1 DEF Register, Enter, Fresh, Agent
<1>2. CASE ForceRegister(c, s)
  BY <1>2 DEF ForceRegister, Enter, Fresh, Agent
<1>3. CASE Deregister(c)
  BY <1>3 DEF Deregister, Dropped, Agent, Disconnected
<1>4. CASE TouchHeartbeat(c)
  BY <1>4 DEF TouchHeartbeat, Agent, Absent, Disconnected
<1> QED
  BY <1>1, <1>2, <1>3, <1>4

LEMMA SweepsTyped ==
  ASSUME RegistryTypeOK, ExpireStale \/ Tick
  PROVE  RegistryTypeOK'
<1> USE DEF RegistryTypeOK
<1>1. CASE ExpireStale
  BY <1>1 DEF ExpireStale, Stale, Dropped, Agent, Disconnected
<1>2. CASE Tick
  BY <1>2 DEF Tick, Older, Agent, Absent, Disconnected
<1> QED
  BY <1>1, <1>2

\* A stream whose hello was accepted has a caller_id.
CallerKnown ==
  \A s \in Streams :
    pc[s] \in {"register", "force", "loop", "leaving"} \/ reader[s] # "off" =>
      caller[s] \in CallerIDs

LEMMA TypeInit == Init => TypeOK /\ CallerKnown
BY DEF Init, CallerKnown, New, TypeOK, RegistryTypeOK, Agent, Absent, Items, Errors, Frames

\* Each step calls at most one method of the registry, with a known caller_id.
LEMMA OneMethod ==
  ASSUME TypeOK, CallerKnown, NEW s \in Streams, StreamStep(s)
  PROVE  \/ UNCHANGED registryVars
         \/ \E c \in CallerIDs :
              Register(c, s) \/ ForceRegister(c, s) \/ Deregister(c) \/ TouchHeartbeat(c)
<1> USE DEF CallerKnown
<1>1. CASE RegisterFree(s) \/ RegisterByForce(s)
  BY <1>1 DEF RegisterFree, RegisterByForce
<1>2. CASE TakeHeartbeat(s) \/ Leave(s)
  BY <1>2 DEF TakeHeartbeat, FromReader, Leave
<1> QED
  BY <1>1, <1>2 DEF StreamStep, Handler, Reader, Client, RefuseFirst, AcceptHello,
    RegisterTaken, RegisterConflict, TakeEvict, TakeOther, TakeEnd, ReceiveFrame,
    ReceiveEnd, Received, Offer, Quit, GoSilent, LinkEnds, LinkChanges

\* What a step does to the variables of the goroutines keeps their types, too.
LEMMA StreamVarsTyped ==
  ASSUME TypeOK, CallerKnown, NEW s \in Streams, StreamStep(s), RegistryTypeOK'
  PROVE  TypeOK' /\ CallerKnown'
<1> USE DEF Items, Errors, Frames, Goto, TypeOK, CallerKnown
<1>1. CASE RefuseFirst(s)
  BY <1>1 DEF RefuseFirst, Return, readerVars
<1>2. ASSUME NEW c \in CallerIDs, AcceptHello(s, c) PROVE TypeOK' /\ CallerKnown'
  BY <1>2 DEF AcceptHello, readerVars
<1>3. CASE RegisterFree(s) \/ RegisterByForce(s)
  BY <1>3 DEF RegisterFree, RegisterByForce, EnterLoop
<1>4. CASE RegisterTaken(s)
  BY <1>4 DEF RegisterTaken, Return, readerVars
<1>5. CASE TakeEvict(s)
  BY <1>5 DEF TakeEvict, Return, readerVars
<1>6. CASE TakeHeartbeat(s) \/ TakeOther(s)
  BY <1>6 DEF TakeHeartbeat, TakeOther, FromReader, handlerVars, readerVars
<1>7. CASE TakeEnd(s)
  BY <1>7 DEF TakeEnd, FromReader, Return, readerVars
<1>8. CASE Leave(s)
  BY <1>8 DEF Leave, readerVars
<1>9. CASE ReceiveFrame(s) \/ ReceiveEnd(s)
  BY <1>9 DEF ReceiveFrame, ReceiveEnd, Received, handlerVars
<1>10. CASE Offer(s) \/ Quit(s)
  BY <1>10 DEF Offer, Quit, handlerVars
<1>11. CASE GoSilent(s) \/ LinkEnds(s)
  BY <1>11 DEF GoSilent, LinkEnds, LinkChanges, handlerVars, readerVars
<1> QED
  BY <1>1, <1>2, <1>3, <1>4, <1>5, <1>6, <1>7, <1>8, <1>9, <1>10, <1>11
  DEF StreamStep, Handler, Reader, Client

LEMMA TypeStep == TypeOK /\ CallerKnown /\ [Next]_vars => (TypeOK /\ CallerKnown)'
<1> SUFFICES ASSUME TypeOK, CallerKnown, [Next]_vars PROVE TypeOK' /\ CallerKnown'
  OBVIOUS
<1>1. CASE UNCHANGED vars
  BY <1>1 DEF vars, TypeOK, RegistryTypeOK, CallerKnown
<1>2. CASE MonitorTick \/ ClockTick
  <2>1. RegistryTypeOK'
    BY <1>2, SweepsTyped DEF MonitorTick, ClockTick, TypeOK
  <2> QED
    BY <1>2, <2>1 DEF MonitorTick, ClockTick, handlerVars, readerVars, TypeOK, CallerKnown
<1>3. ASSUME NEW s \in Streams, StreamStep(s) PROVE TypeOK' /\ CallerKnown'
  <2>1. RegistryTypeOK'
    <3>1. CASE UNCHANGED registryVars
      BY <3>1 DEF registryVars, TypeOK, RegistryTypeOK
    <3>2. ASSUME NEW c \in CallerIDs,
                 Register(c, s) \/ ForceRegister(c, s) \/ Deregister(c) \/ TouchHeartbeat(c)
          PROVE  RegistryTypeOK'
      BY <3>2, MethodsTyped DEF TypeOK
    <3> QED
      BY <1>3, <3>1, <3>2, OneMethod
  <2> QED
    BY <1>3, <2>1, StreamVarsTyped
<1> QED
  BY <1>1, <1>2, <1>3 DEF Next

\* TypeOK is an invariant of every behaviour.
THEOREM TypeCorrect == Safety => []TypeOK
BY TypeInit, TypeStep, PTL DEF Safety

\* A handler that has returned takes no step, and no other handler's step moves it.
LEMMA OnlyItsOwnPc ==
  ASSUME TypeOK, NEW s \in Streams, StreamStep(s), NEW t \in Streams,
         t # s \/ pc[t] = "ended"
  PROVE  pc'[t] = pc[t]
<1> USE DEF TypeOK, Goto, Return, handlerVars
<1>1. CASE RegisterFree(s) \/ RegisterByForce(s)
  BY <1>1 DEF RegisterFree, RegisterByForce, EnterLoop
<1>2. CASE RegisterTaken(s) \/ TakeEvict(s) \/ Leave(s) \/ RefuseFirst(s)
  BY <1>2 DEF RegisterTaken, TakeEvict, Leave, RefuseFirst
<1>3. CASE TakeHeartbeat(s) \/ TakeOther(s) \/ TakeEnd(s)
  BY <1>3 DEF TakeHeartbeat, TakeOther, TakeEnd, FromReader
<1>4. ASSUME NEW c \in CallerIDs, AcceptHello(s, c) PROVE pc'[t] = pc[t]
  BY <1>4 DEF AcceptHello
<1>5. CASE ReceiveFrame(s) \/ GoSilent(s) \/ LinkEnds(s) \/ Reader(s)
  BY <1>5 DEF ReceiveFrame, GoSilent, LinkEnds, LinkChanges, Reader, ReceiveEnd, Received,
    Offer, Quit
<1> QED
  BY <1>1, <1>2, <1>3, <1>4, <1>5 DEF StreamStep, Handler, Client

-----------------------------------------------------------------------------
(* Ownership.  The invariants of AgentStreams are not inductive by         *)
(* themselves: that a stream registers once, that an evicted stream is in  *)
(* no entry and that Aborted is only returned on eviction have to be known.*)

\* A stream that has not been registered is nowhere in the registry.
UnregisteredUnknown ==
  \A s \in Streams : pc[s] \in {"first", "register", "force"} =>
    /\ reader[s] = "off"
    /\ s \notin closed
    /\ \A c \in CallerIDs : agents[c].stream # s

\* An evicted stream is in no entry, and never comes back into one.
ClosedLostEntry ==
  \A s \in closed : \A c \in CallerIDs : agents[c].stream # s

\* Aborted means evicted.
AbortedClosed == \A s \in Streams : code[s] = "Aborted" => s \in closed

Ownership ==
  /\ TypeOK
  /\ CallerKnown
  /\ EvictChannelMatchesEntry
  /\ RegistryServesLiveStreams
  /\ UnregisteredUnknown
  /\ ClosedLostEntry
  /\ AbortedClosed

LEMMA OwnershipInit == Init => Ownership
<1> SUFFICES ASSUME Init PROVE Ownership
  OBVIOUS
<1>1. TypeOK /\ CallerKnown
  BY TypeInit
<1> QED
  BY <1>1 DEF Init, New, Ownership, EvictChannelMatchesEntry, ConnectedStream,
    RegistryServesLiveStreams, UnregisteredUnknown, ClosedLostEntry, AbortedClosed, Absent

\* A step that leaves the registry and every pc and caller_id of a registered
\* stream as they are leaves the ownership as it is.
LEMMA OwnershipSweep ==
  ASSUME Ownership, TypeOK', CallerKnown', MonitorTick \/ ClockTick
  PROVE  Ownership'
<1> USE DEF Ownership, handlerVars, readerVars
<1>1. ASSUME NEW c \in CallerIDs
      PROVE  /\ evictChans'[c] = ConnectedStream(c)'
             /\ agents'[c].stream \in {agents[c].stream, NoStream}
             /\ Connected(c)' => Connected(c) /\ agents'[c].stream = agents[c].stream
  <2>1. CASE MonitorTick
    BY <2>1 DEF MonitorTick, ExpireStale, Stale, Dropped, Disconnected, Absent, TypeOK,
      RegistryTypeOK, EvictChannelMatchesEntry, ConnectedStream, Agent
  <2>2. CASE ClockTick
    BY <2>2 DEF ClockTick, Tick, Older, TypeOK, RegistryTypeOK, EvictChannelMatchesEntry,
      ConnectedStream, Agent, Absent, Disconnected
  <2> QED
    BY <2>1, <2>2
<1>2. UNCHANGED <<closed, handlerVars, readerVars>>
  BY DEF MonitorTick, ClockTick, ExpireStale, Tick
<1>3. EvictChannelMatchesEntry'
  BY <1>1 DEF EvictChannelMatchesEntry
<1>4. RegistryServesLiveStreams'
  BY <1>1, <1>2 DEF RegistryServesLiveStreams, Live
<1>5. UnregisteredUnknown' /\ ClosedLostEntry' /\ AbortedClosed'
  BY <1>1, <1>2 DEF UnregisteredUnknown, ClosedLostEntry, AbortedClosed, TypeOK, RegistryTypeOK
<1> QED
  BY <1>3, <1>4, <1>5

\* Steps of a stream that change no entry's status, stream or channel: it is
\* enough that a stream in an entry stays live and that Aborted is earned.
LEMMA OwnershipKept ==
  ASSUME Ownership, TypeOK', CallerKnown',
         UNCHANGED <<evictChans, closed>>,
         \A c \in CallerIDs : /\ agents'[c].status = agents[c].status
                              /\ agents'[c].stream = agents[c].stream,
         NEW s \in Streams,
         \A t \in Streams \ {s} : /\ pc'[t] = pc[t] /\ caller'[t] = caller[t]
                                  /\ reader'[t] = reader[t] /\ code'[t] = code[t],
         \/ Live(s) /\ Live(s)' /\ caller'[s] = caller[s]
         \/ \A c \in CallerIDs : agents[c].stream # s,
         pc'[s] \in {"first", "register", "force"} =>
           pc[s] \in {"first", "register", "force"} /\ reader'[s] = reader[s],
         code'[s] = "Aborted" => code[s] = "Aborted" \/ s \in closed
  PROVE  Ownership'
<1> USE DEF Ownership
<1>1. EvictChannelMatchesEntry'
  BY DEF EvictChannelMatchesEntry, ConnectedStream
<1>2. RegistryServesLiveStreams'
  BY DEF RegistryServesLiveStreams, Live
<1>3. UnregisteredUnknown'
  BY DEF UnregisteredUnknown
<1>4. ClosedLostEntry' /\ AbortedClosed'
  BY DEF ClosedLostEntry, AbortedClosed
<1> QED
  BY <1>1, <1>2, <1>3, <1>4

\* A stream that has neither been registered nor is live is in no entry.
LEMMA NotLiveNotEntered ==
  ASSUME Ownership, NEW s \in Streams, ~ Live(s)
  PROVE  \A c \in CallerIDs : agents[c].stream # s
<1> SUFFICES ASSUME NEW c \in CallerIDs PROVE agents[c].stream # s
  OBVIOUS
<1>1. Connected(c) \/ agents[c].stream = NoStream
  BY DEF Ownership, TypeOK, RegistryTypeOK, Agent, Absent, Disconnected
<1> QED
  BY <1>1 DEF Ownership, RegistryServesLiveStreams

LEMMA OwnershipPassive ==
  ASSUME Ownership, TypeOK', CallerKnown', NEW s \in Streams,
         \/ RefuseFirst(s) \/ (\E c \in CallerIDs : AcceptHello(s, c)) \/ RegisterTaken(s)
         \/ TakeEvict(s) \/ TakeOther(s) \/ TakeEnd(s) \/ ReceiveFrame(s) \/ ReceiveEnd(s)
         \/ Offer(s) \/ Quit(s) \/ GoSilent(s) \/ LinkEnds(s)
  PROVE  Ownership'
<1> USE NotLiveNotEntered, OwnershipKept
    DEF Ownership, TypeOK, registryVars, handlerVars, readerVars, Goto, Return, Live
<1>1. CASE RefuseFirst(s)
  BY <1>1 DEF RefuseFirst
<1>2. CASE \E c \in CallerIDs : AcceptHello(s, c)
  BY <1>2 DEF AcceptHello
<1>3. CASE RegisterTaken(s)
  BY <1>3 DEF RegisterTaken, RegisterConflict
<1>4. CASE TakeEvict(s)
  BY <1>4 DEF TakeEvict
<1>5. CASE TakeOther(s)
  BY <1>5 DEF TakeOther, FromReader
<1>6. CASE TakeEnd(s)
  BY <1>6 DEF TakeEnd, FromReader
<1>7. CASE ReceiveFrame(s) \/ ReceiveEnd(s)
  BY <1>7 DEF ReceiveFrame, ReceiveEnd, Received, UnregisteredUnknown
<1>8. CASE Offer(s) \/ Quit(s)
  BY <1>8 DEF Offer, Quit, UnregisteredUnknown
<1>9. CASE GoSilent(s) \/ LinkEnds(s)
  BY <1>9 DEF GoSilent, LinkEnds, LinkChanges
<1> QED
  BY <1>1, <1>2, <1>3, <1>4, <1>5, <1>6, <1>7, <1>8, <1>9

LEMMA OwnershipHeartbeat ==
  ASSUME Ownership, TypeOK', CallerKnown', NEW s \in Streams, TakeHeartbeat(s)
  PROVE  Ownership'
<1>1. \A c \in CallerIDs : /\ agents'[c].status = agents[c].status
                           /\ agents'[c].stream = agents[c].stream
  BY DEF TakeHeartbeat, TouchHeartbeat, Ownership, TypeOK, RegistryTypeOK, Agent, Absent,
    Disconnected
<1> QED
  BY <1>1, OwnershipKept
  DEF TakeHeartbeat, TouchHeartbeat, FromReader, handlerVars, readerVars, Ownership, TypeOK,
    Live

\* A registration puts the new stream, so far unknown, in its caller's entry; an
\* evicted one was in no other.
LEMMA OwnershipRegister ==
  ASSUME Ownership, TypeOK', CallerKnown', NEW s \in Streams,
         RegisterFree(s) \/ RegisterByForce(s)
  PROVE  Ownership'
<1> DEFINE c == caller[s]
<1> USE DEF Ownership
<1>1. /\ c \in CallerIDs
      /\ pc[s] \in {"register", "force"}
      /\ Enter(c, s)
      /\ EnterLoop(s)
  BY DEF RegisterFree, RegisterByForce, Register, ForceRegister, CallerKnown
<1>2. /\ closed \subseteq closed'
      /\ closed' \subseteq closed \cup (IF Connected(c) THEN {agents[c].stream} ELSE {})
  BY <1>1 DEF RegisterFree, RegisterByForce, Register, ForceRegister, EvictChannelMatchesEntry,
    ConnectedStream
<1>3. /\ agents' = [agents EXCEPT ![c] = Fresh(s)]
      /\ evictChans' = [evictChans EXCEPT ![c] = s]
  BY <1>1 DEF Enter
<1>4. \A d \in CallerIDs : agents'[d] = IF d = c THEN Fresh(s) ELSE agents[d]
  BY <1>3 DEF TypeOK, RegistryTypeOK
<1>5. s \notin closed /\ \A d \in CallerIDs : agents[d].stream # s
  BY <1>1 DEF UnregisteredUnknown
<1>6. /\ pc' = [pc EXCEPT ![s] = "loop"]
      /\ reader' = [reader EXCEPT ![s] = "recv"]
      /\ UNCHANGED <<caller, code>>
  BY <1>1 DEF EnterLoop, Goto
<1>7. EvictChannelMatchesEntry'
  BY <1>1, <1>3, <1>4 DEF EvictChannelMatchesEntry, ConnectedStream, Fresh, TypeOK,
    RegistryTypeOK
<1>8. RegistryServesLiveStreams'
  BY <1>1, <1>4, <1>6 DEF RegistryServesLiveStreams, Fresh, Live, TypeOK
<1>9. \A d \in CallerIDs \ {c} : Connected(c) => agents[d].stream # agents[c].stream
  BY <1>1, NotLiveNotEntered DEF RegistryServesLiveStreams, TypeOK, RegistryTypeOK, Agent,
    Absent, Disconnected
<1>10. ClosedLostEntry'
  BY <1>1, <1>2, <1>4, <1>5, <1>9 DEF ClosedLostEntry, Fresh
<1>11. UnregisteredUnknown'
  <2> SUFFICES ASSUME NEW t \in Streams, pc'[t] \in {"first", "register", "force"}
               PROVE  /\ reader'[t] = "off" /\ t \notin closed'
                      /\ \A d \in CallerIDs : agents'[d].stream # t
    BY DEF UnregisteredUnknown
  <2>1. t # s /\ pc[t] \in {"first", "register", "force"}
    BY <1>6 DEF TypeOK
  <2> QED
    BY <2>1, <1>1, <1>2, <1>4, <1>6 DEF UnregisteredUnknown, Fresh, TypeOK
<1>12. AbortedClosed'
  BY <1>2, <1>6 DEF AbortedClosed
<1> QED
  BY <1>7, <1>8, <1>10, <1>11, <1>12

\* A handler that returns for another reason than eviction disconnects whatever
\* entry its caller_id has; an evicted one has none left to disconnect.
LEMMA OwnershipLeave ==
  ASSUME Ownership, TypeOK', CallerKnown', NEW s \in Streams, Leave(s)
  PROVE  Ownership'
<1> DEFINE c == caller[s]
<1> USE DEF Ownership
<1>1. /\ c \in CallerIDs
      /\ pc' = [pc EXCEPT ![s] = "ended"]
      /\ UNCHANGED <<caller, code, reader, closed>>
  BY DEF Leave, Goto, CallerKnown, readerVars, registryVars, Deregister
<1>2. CASE code[s] = "Aborted"
  <2>1. \A d \in CallerIDs : agents[d].stream # s
    BY <1>2 DEF AbortedClosed, ClosedLostEntry
  <2> QED
    BY <1>1, <1>2, <2>1, OwnershipKept DEF Leave, registryVars, TypeOK
<1>3. CASE code[s] # "Aborted"
  <2>1. Deregister(c)
    BY <1>3 DEF Leave
  <2>2. \A d \in CallerIDs :
          /\ agents'[d] = IF d = c THEN Dropped(agents[c]) ELSE agents[d]
          /\ evictChans'[d] = IF d = c THEN NoStream ELSE evictChans[d]
    BY <2>1 DEF Deregister, TypeOK, RegistryTypeOK
  <2>3. ~ Connected(c)' /\ agents'[c].stream = NoStream
    BY <1>1, <2>2 DEF Dropped, Absent, Disconnected
  <2>4. EvictChannelMatchesEntry'
    BY <2>2, <2>3 DEF EvictChannelMatchesEntry, ConnectedStream
  <2>5. RegistryServesLiveStreams'
    BY <1>1, <2>2, <2>3 DEF RegistryServesLiveStreams, Live, TypeOK
  <2>6. UnregisteredUnknown'
    BY <1>1, <2>2, <2>3 DEF UnregisteredUnknown, TypeOK
  <2>7. ClosedLostEntry' /\ AbortedClosed'
    BY <1>1, <2>2, <2>3 DEF ClosedLostEntry, AbortedClosed, TypeOK, RegistryTypeOK
  <2> QED
    BY <2>4, <2>5, <2>6, <2>7
<1> QED
  BY <1>2, <1>3

LEMMA OwnershipStep == Ownership /\ [Next]_vars => Ownership'
<1> SUFFICES ASSUME Ownership, [Next]_vars PROVE Ownership'
  OBVIOUS
<1>1. TypeOK' /\ CallerKnown'
  BY TypeStep DEF Ownership
<1>2. CASE UNCHANGED vars
  BY <1>1, <1>2 DEF vars, Ownership, EvictChannelMatchesEntry, ConnectedStream, Live,
    RegistryServesLiveStreams, UnregisteredUnknown, ClosedLostEntry, AbortedClosed
<1>3. CASE MonitorTick \/ ClockTick
  BY <1>1, <1>3, OwnershipSweep
<1>4. ASSUME NEW s \in Streams, StreamStep(s) PROVE Ownership'
  <2>1. CASE TakeHeartbeat(s)
    BY <1>1, <2>1, OwnershipHeartbeat
  <2>2. CASE RegisterFree(s) \/ RegisterByForce(s)
    BY <1>1, <2>2, OwnershipRegister
  <2>3. CASE Leave(s)
    BY <1>1, <2>3, OwnershipLeave
  <2> QED
    BY <1>1, <1>4, <2>1, <2>2, <2>3, OwnershipPassive DEF StreamStep, Handler, Reader, Client
<1> QED
  BY <1>2, <1>3, <1>4 DEF Next

LEMMA OwnershipInvariant == Safety => []Ownership
BY OwnershipInit, OwnershipStep, PTL DEF Safety

\* The evict channel in the map is always the one the connected stream selects on.
THEOREM EvictChannelsMatch == Safety => []EvictChannelMatchesEntry
<1>1. Ownership => EvictChannelMatchesEntry
  BY DEF Ownership
<1> QED
  BY <1>1, OwnershipInvariant, PTL

\* ForceRegister never closes a closed channel.
THEOREM ChannelsClosedOnce == Safety => []NoDoubleClose
<1>1. Ownership => NoDoubleClose
  BY DEF Ownership, NoDoubleClose, EvictChannelMatchesEntry, ConnectedStream, ClosedLostEntry,
    TypeOK, RegistryTypeOK
<1> QED
  BY <1>1, OwnershipInvariant, PTL

\* A connected entry always names a stream whose handler has not returned.
THEOREM ServesLiveStreams == Safety => []RegistryServesLiveStreams
<1>1. Ownership => RegistryServesLiveStreams
  BY DEF Ownership
<1> QED
  BY <1>1, OwnershipInvariant, PTL

\* A handler that answers Aborted has been evicted and is in no entry.
THEOREM AbortedIsEvicted == Safety => []AbortedLostEntry
<1>1. Ownership => AbortedLostEntry
  BY DEF Ownership, AbortedLostEntry, AbortedClosed, ClosedLostEntry
<1> QED
  BY <1>1, OwnershipInvariant, PTL

-----------------------------------------------------------------------------
(* What steps do to the registry.                                          *)

\* Only a registration by force closes channels.
LEMMA ClosedOnlyByForce ==
  ASSUME [Next]_vars, closed' # closed
  PROVE  \E s \in Streams : RegisterByForce(s)
BY DEF Next, StreamStep, Handler, Reader, Client, vars, MonitorTick, ClockTick, ExpireStale,
  Tick, RefuseFirst, AcceptHello, RegisterFree, Register, RegisterTaken, RegisterConflict,
  TakeEvict, TakeHeartbeat, TouchHeartbeat, TakeOther, TakeEnd, FromReader, Leave, Deregister,
  ReceiveFrame, ReceiveEnd, Received, Offer, Quit, GoSilent, LinkEnds, LinkChanges,
  registryVars

LEMMA HandoverStep ==
  ASSUME Ownership, [Next]_vars, NEW s \in closed' \ closed
  PROVE  /\ agents[caller[s]].stream = s
         /\ \E t \in Streams \ {s} : agents'[caller[s]] = Fresh(t)
<1>1. PICK t \in Streams : RegisterByForce(t)
  BY ClosedOnlyByForce
<1> DEFINE c == caller[t]
<1>2. /\ c \in CallerIDs
      /\ Connected(c) /\ s = agents[c].stream
      /\ agents'[c] = Fresh(t)
  BY <1>1 DEF RegisterByForce, ForceRegister, Enter, Ownership, CallerKnown,
    EvictChannelMatchesEntry, ConnectedStream, TypeOK, RegistryTypeOK
<1>3. caller[s] = c /\ Live(s)
  BY <1>2 DEF Ownership, RegistryServesLiveStreams
<1>4. s # t
  BY <1>1, <1>3 DEF RegisterByForce, Live
<1> QED
  BY <1>2, <1>3, <1>4

\* An eviction goes with a takeover: the stream evicted is the connected stream of
\* its caller_id, and the same step gives the entry to a newcomer.
THEOREM EvictionIsHandover == Safety => EvictionHandsOver
<1>1. Ownership /\ [Next]_vars =>
        [\A s \in closed' \ closed :
           /\ agents[caller[s]].stream = s
           /\ \E t \in Streams \ {s} : agents'[caller[s]] = Fresh(t)]_vars
  BY HandoverStep
<1> QED
  BY <1>1, OwnershipInvariant, PTL DEF Safety, EvictionHandsOver

LEMMA LossStep ==
  ASSUME Ownership, [Next]_vars, NEW c \in CallerIDs, Connected(c),
         agents'[c].stream # agents[c].stream
  PROVE  \/ pc[agents[c].stream] = "leaving"
         \/ agents[c].idle > TTL
         \/ agents[c].stream \in closed'
         \/ \E t \in Streams : pc[t] = "leaving" /\ caller[t] = c /\ code[t] # "Aborted"
<1> USE DEF Ownership, TypeOK, RegistryTypeOK
<1>1. ~ UNCHANGED vars /\ ~ UNCHANGED registryVars
  BY DEF vars, registryVars
<1>2. CASE MonitorTick
  BY <1>2 DEF MonitorTick, ExpireStale, Stale
<1>3. ~ ClockTick
  BY DEF ClockTick, Tick, Older, Agent, Absent, Disconnected
<1>4. ASSUME NEW s \in Streams, RegisterFree(s) \/ RegisterByForce(s)
      PROVE  agents[c].stream \in closed'
  BY <1>4 DEF RegisterFree, RegisterByForce, Register, ForceRegister, Enter,
    EvictChannelMatchesEntry, ConnectedStream, RegistryServesLiveStreams
<1>5. ASSUME NEW s \in Streams, Leave(s)
      PROVE  pc[s] = "leaving" /\ caller[s] = c /\ code[s] # "Aborted"
  BY <1>1, <1>5 DEF Leave, Deregister
<1>6. ASSUME NEW s \in Streams, TakeHeartbeat(s)
      PROVE  FALSE
  BY <1>6 DEF TakeHeartbeat, TouchHeartbeat, Agent, Absent, Disconnected
<1>7. ASSUME NEW s \in Streams, StreamStep(s)
      PROVE  RegisterFree(s) \/ RegisterByForce(s) \/ Leave(s)
  BY <1>1, <1>6, <1>7 DEF StreamStep, Handler, Reader, Client, RefuseFirst,
    AcceptHello, RegisterTaken, RegisterConflict, TakeEvict, TakeOther, TakeEnd,
    ReceiveFrame, ReceiveEnd, Received, Offer, Quit, GoSilent, LinkEnds, LinkChanges
<1> QED
  BY <1>1, <1>2, <1>3, <1>4, <1>5, <1>7 DEF Next

\* An entry is lost to its own handler, to a late heartbeat, to a newcomer, or to an
\* earlier handler of the caller_id that was not told it was evicted.
THEOREM LossesExplained == Safety => LossIsExplained
<1>1. Ownership /\ [Next]_vars =>
        [\A c \in CallerIDs : Connected(c) /\ agents'[c].stream # agents[c].stream =>
           \/ pc[agents[c].stream] = "leaving"
           \/ agents[c].idle > TTL
           \/ agents[c].stream \in closed'
           \/ \E t \in Streams : pc[t] = "leaving" /\ caller[t] = c /\ code[t] # "Aborted"]_vars
  BY LossStep
<1> QED
  BY <1>1, OwnershipInvariant, PTL DEF Safety, LossIsExplained

-----------------------------------------------------------------------------
(* AgentStreams implements AgentPresence.                                  *)

Shown == [c \in CallerIDs |-> ConnectedStream(c)]
Owner == [s \in Streams |-> IF reader[s] = "off" THEN NoCaller ELSE caller[s]]

\* Steps that register nobody leave every owner as it is.
LEMMA OwnerKept ==
  ASSUME Ownership, NEW s \in Streams, StreamStep(s),
         ~ RegisterFree(s), ~ RegisterByForce(s)
  PROVE  Owner' = Owner
<1>1. ASSUME NEW t \in Streams
      PROVE  /\ reader'[t] = "off" <=> reader[t] = "off"
             /\ reader[t] # "off" => caller'[t] = caller[t]
  <2> USE DEF Ownership, TypeOK, handlerVars, readerVars
  <2>1. CASE \/ RefuseFirst(s) \/ RegisterTaken(s) \/ TakeEvict(s) \/ TakeHeartbeat(s)
             \/ TakeOther(s) \/ TakeEnd(s) \/ Leave(s) \/ GoSilent(s) \/ LinkEnds(s)
    BY <2>1 DEF RefuseFirst, RegisterTaken, TakeEvict, TakeHeartbeat, TakeOther, TakeEnd,
      FromReader, Leave, GoSilent, LinkEnds, LinkChanges
  <2>2. ASSUME NEW c \in CallerIDs, AcceptHello(s, c)
        PROVE  /\ reader'[t] = "off" <=> reader[t] = "off"
               /\ reader[t] # "off" => caller'[t] = caller[t]
    BY <2>2 DEF AcceptHello, UnregisteredUnknown
  <2>3. CASE ReceiveFrame(s) \/ ReceiveEnd(s) \/ Offer(s) \/ Quit(s)
    BY <2>3 DEF ReceiveFrame, ReceiveEnd, Received, Offer, Quit
  <2> QED
    BY <2>1, <2>2, <2>3 DEF StreamStep, Handler, Reader, Client
<1> QED
  BY <1>1 DEF Owner

\* A registration makes its stream appear.
LEMMA RegisterAppears ==
  ASSUME Ownership, NEW s \in Streams, RegisterFree(s) \/ RegisterByForce(s)
  PROVE  \E c \in CallerIDs : Presence!Appear(c, s)
<1> DEFINE c == caller[s]
<1> USE DEF Ownership, TypeOK, RegistryTypeOK
<1>1. c \in CallerIDs /\ reader[s] = "off"
  BY DEF RegisterFree, RegisterByForce, CallerKnown, UnregisteredUnknown
<1>2. /\ agents' = [agents EXCEPT ![c] = Fresh(s)]
      /\ reader' = [reader EXCEPT ![s] = "recv"]
      /\ caller' = caller
  BY DEF RegisterFree, RegisterByForce, Register, ForceRegister, Enter, EnterLoop
<1>3. Shown' = [Shown EXCEPT ![c] = s]
  BY <1>1, <1>2 DEF Shown, ConnectedStream, Fresh
<1>4. Owner[s] = NoCaller /\ Owner' = [Owner EXCEPT ![s] = c]
  BY <1>1, <1>2 DEF Owner
<1> QED
  BY <1>1, <1>3, <1>4 DEF Presence!Appear, Shown, Owner

\* Every other step leaves each caller its stream or takes it away.
LEMMA OthersVanish ==
  ASSUME \A c \in CallerIDs : ConnectedStream(c)' \in {ConnectedStream(c), NoStream},
         Owner' = Owner
  PROVE  Presence!Vanish
<1> DEFINE gone == {c \in CallerIDs : ConnectedStream(c)' # ConnectedStream(c)}
<1>1. Shown' = [c \in CallerIDs |-> IF c \in gone THEN NoStream ELSE Shown[c]]
  BY DEF Shown
<1> QED
  BY <1>1 DEF Presence!Vanish, Shown, Owner

LEMMA StepRefines == Ownership /\ [Next]_vars => [Presence!PresenceNext]_(Presence!presenceVars)
<1> SUFFICES ASSUME Ownership, [Next]_vars
             PROVE  Presence!PresenceNext \/ UNCHANGED Presence!presenceVars
  OBVIOUS
<1> USE DEF Ownership, TypeOK, RegistryTypeOK
<1>1. CASE UNCHANGED vars
  BY <1>1 DEF vars, Presence!presenceVars, ConnectedStream
<1>2. CASE MonitorTick \/ ClockTick
  <2>1. \A c \in CallerIDs : ConnectedStream(c)' \in {ConnectedStream(c), NoStream}
    BY <1>2 DEF MonitorTick, ClockTick, ExpireStale, Tick, Stale, Dropped, Older,
      ConnectedStream, Disconnected, Absent, Agent
  <2>2. Owner' = Owner
    BY <1>2 DEF MonitorTick, ClockTick, handlerVars, readerVars, Owner
  <2> QED
    BY <2>1, <2>2, OthersVanish DEF Presence!PresenceNext
<1>3. ASSUME NEW s \in Streams, StreamStep(s)
      PROVE  Presence!PresenceNext
  <2>1. CASE RegisterFree(s) \/ RegisterByForce(s)
    BY <2>1, RegisterAppears DEF Presence!PresenceNext
  <2>2. CASE ~ RegisterFree(s) /\ ~ RegisterByForce(s)
    <3>1. Owner' = Owner
      BY <1>3, <2>2, OwnerKept
    <3>2. \A c \in CallerIDs : ConnectedStream(c)' \in {ConnectedStream(c), NoStream}
      <4>1. CASE TakeHeartbeat(s)
        BY <4>1 DEF TakeHeartbeat, TouchHeartbeat, ConnectedStream, Agent, Absent, Disconnected
      <4>2. CASE Leave(s)
        BY <4>2 DEF Leave, Deregister, registryVars, Dropped, Absent, Disconnected,
          ConnectedStream
      <4>3. CASE UNCHANGED registryVars
        BY <4>3 DEF registryVars, ConnectedStream
      <4> QED
        BY <1>3, <2>2, <4>1, <4>2, <4>3 DEF StreamStep, Handler, Reader, Client, RefuseFirst,
          AcceptHello, RegisterTaken, RegisterConflict, TakeEvict, TakeOther, TakeEnd,
          ReceiveFrame, ReceiveEnd, Received, Offer, Quit, GoSilent, LinkEnds, LinkChanges
    <3> QED
      BY <3>1, <3>2, OthersVanish DEF Presence!PresenceNext
  <2> QED
    BY <2>1, <2>2
<1> QED
  BY <1>1, <1>2, <1>3 DEF Next

\* Handlers, monitor and registry implement what the command router relies on.
THEOREM PresenceRefined == Safety => ImplementsPresence
<1>1. Init => Presence!PresenceInit
  BY DEF Init, New, Presence!PresenceInit, ConnectedStream, Absent
<1> QED
  BY <1>1, StepRefines, OwnershipInvariant, PTL
  DEF Safety, ImplementsPresence, Presence!PresenceSpec

-----------------------------------------------------------------------------
(* Exclusive ownership under reject_new.                                   *)

\* Nobody is in the second half of a takeover.
Unforced == Ownership /\ \A s \in Streams : pc[s] # "force"

LEMMA UnforcedStep ==
  ASSUME Policy = "reject_new", Unforced, [Next]_vars
  PROVE  Unforced'
<1> USE DEF Unforced, Ownership, TypeOK
<1>1. Ownership'
  BY OwnershipStep
<1>2. ASSUME NEW s \in Streams, StreamStep(s), NEW t \in Streams PROVE pc'[t] # "force"
  <2>1. CASE t # s
    BY <1>2, <2>1, OnlyItsOwnPc
  <2>2. CASE RegisterFree(s) \/ RegisterTaken(s) \/ Leave(s)
    BY <2>2 DEF RegisterFree, RegisterTaken, Leave, EnterLoop, Return, Goto
  <2>3. CASE TakeEvict(s) \/ TakeHeartbeat(s) \/ TakeOther(s) \/ TakeEnd(s)
    BY <2>3 DEF TakeEvict, TakeHeartbeat, TakeOther, TakeEnd, FromReader, Return, Goto,
      handlerVars
  <2>4. CASE RefuseFirst(s) \/ \E c \in CallerIDs : AcceptHello(s, c)
    BY <2>4 DEF RefuseFirst, AcceptHello, Return, Goto
  <2>5. CASE ReceiveFrame(s) \/ GoSilent(s) \/ LinkEnds(s) \/ Reader(s)
    BY <2>5 DEF ReceiveFrame, GoSilent, LinkEnds, LinkChanges, Reader, ReceiveEnd, Received,
      Offer, Quit, handlerVars
  <2> QED
    BY <1>2, <2>2, <2>3, <2>4, <2>5 DEF StreamStep, Handler, Client, RegisterByForce
<1>3. CASE MonitorTick \/ ClockTick \/ UNCHANGED vars
  BY <1>1, <1>3 DEF MonitorTick, ClockTick, handlerVars, vars
<1> QED
  BY <1>1, <1>2, <1>3 DEF Next

LEMMA UnforcedInit == Init => Unforced
BY OwnershipInit DEF Init, Unforced

\* While the entry stays with its stream and no handler joins, nothing is shared.
LEMMA ExclusiveKept ==
  ASSUME NEW c \in CallerIDs, Exclusive(c), ConnectedStream(c)' = ConnectedStream(c),
         \A t \in Streams : Live(t)' => Live(t) /\ caller'[t] = caller[t]
  PROVE  Exclusive(c)'
BY DEF Exclusive

\* What a handler does to the caller_id it shares with nobody.
LEMMA ExclusiveByStream ==
  ASSUME Unforced, NEW c \in CallerIDs, Exclusive(c), NEW s \in Streams, StreamStep(s)
  PROVE  Exclusive(c)'
<1> USE DEF Unforced, Ownership, TypeOK, RegistryTypeOK, Goto
<1>1. CASE RegisterFree(s)
  <2> DEFINE d == caller[s]
  <2>1. /\ d \in CallerIDs /\ ~ Connected(d)
        /\ \A e \in CallerIDs : agents'[e] = IF e = d THEN Fresh(s) ELSE agents[e]
        /\ pc' = [pc EXCEPT ![s] = "loop"] /\ caller' = caller
    BY <1>1 DEF RegisterFree, Register, Enter, EnterLoop, CallerKnown
  <2>2. ASSUME NEW t \in Streams, Live(t)', caller'[t] = c PROVE ConnectedStream(c)' = t
    <3>1. CASE t = s
      BY <2>1, <2>2, <3>1 DEF ConnectedStream, Fresh
    <3>2. CASE t # s
      <4>1. Live(t) /\ ConnectedStream(c) = t
        BY <2>1, <2>2, <3>2 DEF Live, Exclusive
      <4>2. c # d
        BY <2>1, <4>1 DEF ConnectedStream
      <4> QED
        BY <2>1, <4>1, <4>2 DEF ConnectedStream
    <3> QED
      BY <3>1, <3>2
  <2> QED
    BY <2>2 DEF Exclusive
<1>2. CASE Leave(s)
  <2>1. /\ pc' = [pc EXCEPT ![s] = "ended"] /\ caller' = caller
        /\ \A e \in CallerIDs \ {caller[s]} : agents'[e] = agents[e]
    BY <1>2 DEF Leave, Deregister, registryVars
  <2>2. ASSUME NEW t \in Streams, Live(t)', caller'[t] = c PROVE ConnectedStream(c)' = t
    <3>1. t # s /\ Live(t) /\ caller[t] = c
      BY <2>1, <2>2 DEF Live
    <3>2. ConnectedStream(c) = t /\ caller[s] # c
      BY <1>2, <3>1 DEF Exclusive, Leave, Live
    <3> QED
      BY <2>1, <3>2 DEF ConnectedStream
  <2> QED
    BY <2>2 DEF Exclusive
<1>3. CASE TakeHeartbeat(s)
  <2>1. ConnectedStream(c)' = ConnectedStream(c)
    BY <1>3 DEF TakeHeartbeat, TouchHeartbeat, ConnectedStream, Agent, Absent, Disconnected
  <2> QED
    BY <1>3, <2>1, ExclusiveKept DEF TakeHeartbeat, FromReader, handlerVars, Live
<1>4. CASE \/ RefuseFirst(s) \/ (\E d \in CallerIDs : AcceptHello(s, d)) \/ RegisterTaken(s)
           \/ TakeEvict(s) \/ TakeOther(s) \/ TakeEnd(s)
  <2>1. /\ UNCHANGED registryVars
        /\ \A t \in Streams : Live(t)' => Live(t) /\ caller'[t] = caller[t]
    BY <1>4 DEF RefuseFirst, AcceptHello, RegisterTaken, RegisterConflict, TakeEvict, TakeOther,
      TakeEnd, FromReader, Return, Live, handlerVars
  <2> QED
    BY <2>1, ExclusiveKept DEF registryVars, ConnectedStream
<1>5. CASE \/ ReceiveFrame(s) \/ ReceiveEnd(s) \/ Offer(s) \/ Quit(s)
           \/ GoSilent(s) \/ LinkEnds(s)
  <2>1. UNCHANGED <<registryVars, pc, caller>>
    BY <1>5 DEF ReceiveFrame, ReceiveEnd, Received, Offer, Quit, GoSilent, LinkEnds,
      LinkChanges, handlerVars
  <2> QED
    BY <2>1, ExclusiveKept DEF registryVars, ConnectedStream, Live
<1> QED
  BY <1>1, <1>2, <1>3, <1>4, <1>5 DEF StreamStep, Handler, Reader, Client, RegisterByForce

\* What the clock and the monitor do to it.
LEMMA ExclusiveStep ==
  ASSUME Unforced, [Next]_vars, NEW c \in CallerIDs, Exclusive(c), ~ Exclusive(c)'
  PROVE  Stale(c) /\ ~ Connected(c)'
<1> USE DEF Unforced, Ownership, TypeOK, RegistryTypeOK
<1>1. CASE ConnectedStream(c)' = ConnectedStream(c) /\ UNCHANGED <<pc, caller>>
  BY <1>1, ExclusiveKept DEF Live
<1>2. CASE UNCHANGED vars
  BY <1>1, <1>2 DEF vars, ConnectedStream
<1>3. CASE ClockTick
  BY <1>1, <1>3 DEF ClockTick, Tick, Older, Agent, Absent, Disconnected, ConnectedStream,
    handlerVars
<1>4. CASE MonitorTick /\ ~ Stale(c)
  BY <1>1, <1>4 DEF MonitorTick, ExpireStale, ConnectedStream, handlerVars
<1>5. CASE MonitorTick /\ Stale(c)
  BY <1>5 DEF MonitorTick, ExpireStale, Dropped, Absent, Disconnected
<1> QED
  BY <1>2, <1>3, <1>4, <1>5, ExclusiveByStream DEF Next

\* Under reject_new no handler shares its caller_id with another unless the entry of the
\* caller_id has expired.
THEOREM RejectNewIsExclusive ==
  ASSUME Policy = "reject_new"
  PROVE  Safety => ExclusiveUntilExpiry
<1>1. Unforced /\ [Next]_vars => Unforced'
  BY UnforcedStep
<1>2. Unforced /\ [Next]_vars =>
        [\A c \in CallerIDs :
           Exclusive(c) /\ ~ Exclusive(c)' => Stale(c) /\ ~ Connected(c)']_vars
  BY ExclusiveStep
<1> QED
  BY <1>1, <1>2, UnforcedInit, PTL DEF Safety, ExclusiveUntilExpiry
=============================================================================
