--------------------------- MODULE RegistryProofs ---------------------------
(***************************************************************************)
(* Proofs about Registry, for every set of names, any timeouts that have a *)
(* largest, and any bounds.  OnlineOnItsWord rests on the order in which   *)
(* the commands of one name are on their way: nothing follows the          *)
(* unregister of an incarnation but commands of later ones.                *)
(***************************************************************************)
EXTENDS Registry, TLAPS

(* What threads of an interface are doing while it is in a phase.           *)
LifeInv ==
  \A m \in Modules :
    /\ phase[m] # "down" => starts[m] >= 1
    /\ phase[m] \in {"down", "registering"} => beat[m] = "off"
    /\ phase[m] # "running" => beating[m] = FALSE
    /\ phase[m] = "unregistering" => beat[m] \in {"off", "asleep"}

LEMMA HorizonNat == Horizon \in Nat
  <1>1. \E t \in Timeouts : \A u \in Timeouts : u <= t
    BY TimeoutAssumption DEF TimeoutAssumption
  <1> QED BY <1>1, TimeoutAssumption DEF Horizon, TimeoutAssumption

LEMMA SendKeepsType ==
  ASSUME TypeOK, NEW m \in Modules, NEW kind \in {"register", "heartbeat", "unregister"},
         NEW n \in Incarnations, Send(m, kind, n)
  PROVE  outgoing' \in [Modules -> Seq(Command)]
  <1>1. [kind |-> kind, by |-> n] \in Command
    BY DEF Command
  <1> QED BY <1>1 DEF TypeOK, Send

LEMMA TakesKeepsType ==
  ASSUME TypeOK, NEW m \in Modules, NEW kind, Takes(m, kind)
  PROVE  /\ incoming' \in [Modules -> Seq(Command)]
         /\ Head(incoming[m]) \in Command /\ Head(incoming[m]).by \in 0..MaxStarts
         /\ UNCHANGED <<phase, starts, beat, beating, io, outgoing, node, routing, outages>>
  <1>1. incoming[m] \in Seq(Command) /\ incoming[m] # << >>
    BY DEF TypeOK, Takes
  <1>2. Head(incoming[m]) \in Command /\ Tail(incoming[m]) \in Seq(Command)
    BY <1>1
  <1>3. Head(incoming[m]).by \in 0..MaxStarts
    BY <1>2, BoundAssumption DEF Command, Incarnations, BoundAssumption
  <1> QED BY <1>2, <1>3 DEF TypeOK, Takes, moduleVars, nodeVars

LEMMA TypeStays == TypeOK /\ LifeInv /\ [Next]_vars => TypeOK'
  <1> SUFFICES ASSUME TypeOK, LifeInv, [Next]_vars
               PROVE  TypeOK'
    OBVIOUS
  <1> USE BoundAssumption DEF BoundAssumption
  <1>1. ASSUME NEW m \in Modules, Start(m)
        PROVE  TypeOK'
    <2>1. starts[m] + 1 \in Incarnations
      BY <1>1 DEF Start, TypeOK, Incarnations
    <2>2. outgoing' \in [Modules -> Seq(Command)]
      BY <1>1, <2>1, SendKeepsType DEF Start
    <2>3. starts' \in [Modules -> 0..MaxStarts]
      BY <1>1 DEF Start, TypeOK
    <2> QED BY <1>1, <2>2, <2>3 DEF Start, TypeOK, nodeVars, registryVars
  <1>2. ASSUME NEW m \in Modules,
               RegisterReturns(m) \/ BeatWakes(m) \/ BeatReturns(m) \/ Stop(m)
                 \/ HandlerBreaks(m)
        PROVE  TypeOK'
    BY <1>2 DEF RegisterReturns, BeatWakes, BeatReturns, Stop, HandlerBreaks, TypeOK,
       nodeVars, registryVars
  <1>3. ASSUME NEW m \in Modules, BeatSends(m)
        PROVE  TypeOK'
    <2>1. starts[m] \in Incarnations
      BY <1>3 DEF BeatSends, TypeOK, LifeInv, Incarnations
    <2>2. outgoing' \in [Modules -> Seq(Command)]
      BY <1>3, <2>1, SendKeepsType DEF BeatSends
    <2> QED BY <1>3, <2>2 DEF BeatSends, TypeOK, nodeVars, registryVars
  <1>4. ASSUME NEW m \in Modules, JoinEnds(m)
        PROVE  TypeOK'
    <2>1. starts[m] \in Incarnations
      BY <1>4 DEF JoinEnds, TypeOK, LifeInv, Incarnations
    <2>2. outgoing' \in [Modules -> Seq(Command)]
      BY <1>4, <2>1, SendKeepsType DEF JoinEnds, Unregister
    <2> QED BY <1>4, <2>2 DEF JoinEnds, Unregister, TypeOK, nodeVars, registryVars
  <1>5. ASSUME NEW m \in Modules, Ends(m)
        PROVE  TypeOK'
    BY <1>5 DEF Ends, TypeOK, nodeVars, registryVars
  <1>6. ASSUME NEW m \in Modules, Transmit(m)
        PROVE  TypeOK'
    <2>1. outgoing[m] \in Seq(Command) /\ outgoing[m] # << >>
      BY <1>6 DEF Transmit, TypeOK
    <2>2. Head(outgoing[m]) \in Command /\ Tail(outgoing[m]) \in Seq(Command)
      BY <2>1
    <2>3. outgoing' \in [Modules -> Seq(Command)] /\ incoming' \in [Modules -> Seq(Command)]
      BY <1>6, <2>2 DEF Transmit, TypeOK
    <2> QED BY <1>6, <2>3 DEF Transmit, TypeOK, moduleVars, nodeVars, registryVars
  <1>7. CASE NodeStarts \/ NodeReady \/ NodeStops \/ NodeStopped \/ NodeCrashes \/ BrokerBreaks
    <2>0. /\ node' \in {"down", "starting", "up", "stopping"} /\ outages' \in 0..MaxOutages
          /\ routing' \in BOOLEAN
          /\ UNCHANGED <<moduleVars, outgoing, voice, left>>
      <3>1. node' \in {"down", "starting", "up", "stopping"} /\ routing' \in BOOLEAN
        BY <1>7 DEF NodeStarts, NodeReady, NodeStops, NodeStopped, NodeCrashes, BrokerBreaks, TypeOK
      <3>2. outages' \in 0..MaxOutages
        <4>1. outages \in 0..MaxOutages /\ MaxOutages \in Nat
          BY DEF TypeOK
        <4>2. outages' = outages \/ (outages < MaxOutages /\ outages' = outages + 1)
          BY <1>7 DEF NodeStarts, NodeReady, NodeStops, NodeStopped, NodeCrashes, BrokerBreaks
        <4> QED BY <4>1, <4>2
      <3>3. UNCHANGED <<moduleVars, outgoing, voice, left>>
        BY <1>7 DEF NodeStarts, NodeReady, NodeStops, NodeStopped, NodeCrashes, BrokerBreaks, registryVars
      <3> QED BY <3>1, <3>2, <3>3
    <2>1. incoming' \in [Modules -> Seq(Command)]
      <3>1. incoming' = incoming \/ incoming' = [m \in Modules |-> << >>]
        BY <1>7 DEF NodeStarts, NodeReady, NodeStops, NodeStopped, NodeCrashes, BrokerBreaks
      <3>2. << >> \in Seq(Command)
        OBVIOUS
      <3>3. incoming \in [Modules -> Seq(Command)]
        BY DEF TypeOK
      <3> QED BY <3>1, <3>2, <3>3
    <2>2. 0 \in Silences
      BY HorizonNat DEF Silences
    <2>3. \/ UNCHANGED registryVars
          \/ status' = [m \in Modules |-> "unknown"] /\ silence' = [m \in Modules |-> 0]
      BY <1>7 DEF NodeStarts, NodeReady, NodeStops, NodeStopped, NodeCrashes, BrokerBreaks
    <2>4. status' \in [Modules -> {"unknown", "online", "offline"}]
      BY <2>3 DEF TypeOK, registryVars
    <2>5. silence' \in [Modules -> Silences]
      BY <2>2, <2>3 DEF TypeOK, registryVars
    <2> QED BY <2>0, <2>1, <2>4, <2>5 DEF TypeOK, moduleVars
  <1>8. ASSUME NEW m \in Modules, Handle(m)
        PROVE  TypeOK'
    <2>1. \E kind \in {"register", "heartbeat", "unregister"} : Takes(m, kind)
      BY <1>8 DEF Handle, HandleRegister, RejectRegister, HandleHeartbeat, HandleUnregister
    <2>2. /\ incoming' \in [Modules -> Seq(Command)] /\ Head(incoming[m]).by \in 0..MaxStarts
          /\ UNCHANGED <<phase, starts, beat, beating, io, outgoing, node, routing, outages>>
      BY <2>1, TakesKeepsType
    <2>3. 0 \in Silences
      BY HorizonNat DEF Silences
    <2>4. status' \in [Modules -> {"unknown", "online", "offline"}]
      BY <1>8 DEF Handle, HandleRegister, RejectRegister, HandleHeartbeat,
         HandleUnregister, SetOnline, TypeOK, registryVars
    <2>5. silence' = silence \/ silence' = [silence EXCEPT ![m] = 0]
      BY <1>8 DEF Handle, HandleRegister, RejectRegister, HandleHeartbeat,
         HandleUnregister, SetOnline, registryVars
    <2>6. silence' \in [Modules -> Silences]
      BY <2>3, <2>5 DEF TypeOK
    <2>7. voice' \in [Modules -> 0..MaxStarts] /\ left' \in [Modules -> 0..MaxStarts]
      BY <1>8, <2>2 DEF Handle, HandleRegister, RejectRegister, HandleHeartbeat,
         HandleUnregister, SetOnline, TypeOK, registryVars
    <2> QED BY <2>2, <2>4, <2>6, <2>7 DEF TypeOK
  <1>9. ASSUME NEW timeout \in Timeouts, Poll(timeout)
        PROVE  TypeOK'
    BY <1>9 DEF Poll, TypeOK, moduleVars, nodeVars
  <1>10. CASE Tick
    <2>1. silence' \in [Modules -> Silences]
      BY <1>10, HorizonNat DEF Tick, TypeOK, Silences
    <2> QED BY <1>10, <2>1 DEF Tick, TypeOK, moduleVars, nodeVars
  <1>11. CASE UNCHANGED vars
    BY <1>11 DEF vars, moduleVars, nodeVars, registryVars, TypeOK
  <1> QED BY <1>1, <1>2, <1>3, <1>4, <1>5, <1>6, <1>7, <1>8, <1>9, <1>10, <1>11
        DEF Next, Interface, Heartbeat, UnregisterReturns, Crash

LEMMA LifeStays == TypeOK /\ LifeInv /\ [Next]_vars => LifeInv'
  <1> SUFFICES ASSUME TypeOK, LifeInv, [Next]_vars
               PROVE  LifeInv'
    OBVIOUS
  <1>0. /\ phase \in [Modules -> {"down", "registering", "running", "joining", "unregistering"}]
        /\ starts \in [Modules -> Nat] /\ beating \in [Modules -> BOOLEAN]
        /\ beat \in [Modules -> {"off", "asleep", "sending", "waiting"}]
    BY DEF TypeOK
  <1>1. ASSUME NEW m \in Modules, Start(m) \/ Ends(m) \/ RegisterReturns(m) \/ Stop(m)
        PROVE  LifeInv'
    BY <1>0, <1>1 DEF LifeInv, Start, Ends, RegisterReturns, Stop
  <1>2. ASSUME NEW m \in Modules, Heartbeat(m)
        PROVE  LifeInv'
    BY <1>0, <1>2 DEF LifeInv, Heartbeat, BeatWakes, BeatSends, BeatReturns
  <1>3. ASSUME NEW m \in Modules, JoinEnds(m)
        PROVE  LifeInv'
    BY <1>0, <1>3 DEF LifeInv, JoinEnds, Unregister
  <1>7. ASSUME NEW m \in Modules, HandlerBreaks(m)
        PROVE  LifeInv'
    BY <1>7 DEF LifeInv, HandlerBreaks
  <1>4. ASSUME UNCHANGED moduleVars
        PROVE  LifeInv'
    BY <1>4 DEF LifeInv, moduleVars
  <1>5. ASSUME NEW m \in Modules, Transmit(m) \/ Handle(m)
        PROVE  UNCHANGED moduleVars
    BY <1>5 DEF Transmit, Handle, HandleRegister, RejectRegister, HandleHeartbeat,
       HandleUnregister, Takes
  <1>6. ASSUME \/ NodeStarts \/ NodeReady \/ NodeStops \/ NodeStopped \/ NodeCrashes
               \/ BrokerBreaks \/ \E timeout \in Timeouts : Poll(timeout)
               \/ Tick \/ UNCHANGED vars
        PROVE  UNCHANGED moduleVars
    BY <1>6 DEF NodeStarts, NodeReady, NodeStops, NodeStopped, NodeCrashes, BrokerBreaks, Poll,
       Tick, vars
  <1> QED BY <1>1, <1>2, <1>3, <1>4, <1>5, <1>6, <1>7
          DEF Next, Interface, UnregisterReturns, Crash

(* Every variable of the registry and of the interfaces keeps its type: no  *)
(* command carries an incarnation that was never started.                   *)
THEOREM TypeCorrect == Spec => [](TypeOK /\ LifeInv)
  <1>1. Init => LifeInv
    BY DEF Init, LifeInv
  <1>2. Init => TypeOK
    <2>1. 0 \in Silences /\ 0 \in 0..MaxStarts /\ 0 \in 0..MaxOutages /\ << >> \in Seq(Command)
      BY HorizonNat, BoundAssumption DEF Silences, BoundAssumption
    <2>2. Init => /\ phase \in [Modules -> {"down"}] /\ starts \in [Modules -> 0..MaxStarts]
                  /\ beat \in [Modules -> {"off"}] /\ beating \in [Modules -> BOOLEAN]
                  /\ io \in [Modules -> BOOLEAN] /\ outgoing \in [Modules -> Seq(Command)]
                  /\ incoming \in [Modules -> Seq(Command)]
      BY <2>1 DEF Init
    <2>3. Init => /\ status \in [Modules -> {"unknown"}] /\ silence \in [Modules -> Silences]
                  /\ voice \in [Modules -> 0..MaxStarts] /\ left \in [Modules -> 0..MaxStarts]
                  /\ node = "down" /\ routing = FALSE /\ outages \in 0..MaxOutages
      BY <2>1 DEF Init
    <2> QED BY <2>2, <2>3 DEF TypeOK
  <1> QED BY <1>1, <1>2, TypeStays, LifeStays, PTL DEF Spec

-----------------------------------------------------------------------------
(* The order of the commands of one name.                                   *)

Before(x, y) == x.by <= y.by /\ (x.kind = "unregister" => x.by < y.by)

InOrder(list) == \A i, j \in 1..Len(list) : i < j => Before(list[i], list[j])

In(list) == {list[i] : i \in 1..Len(list)}

(* A command on its way is of an incarnation that has not left, not earlier *)
(* than the one heard last; if it is the unregister of the current one, the *)
(* interface has sent its last.                                             *)
Fits(m, x) ==
  /\ left[m] < x.by /\ voice[m] <= x.by /\ x.by <= starts[m]
  /\ x.kind = "unregister" /\ x.by = starts[m] => phase[m] \in {"unregistering", "down"}

OrderOf(m) ==
  /\ InOrder(incoming[m]) /\ InOrder(outgoing[m])
  /\ \A x \in In(incoming[m]), y \in In(outgoing[m]) : Before(x, y)
  /\ \A x \in In(incoming[m]) \cup In(outgoing[m]) : Fits(m, x)
  /\ voice[m] <= starts[m] /\ left[m] <= starts[m]
  /\ left[m] = starts[m] => phase[m] \in {"unregistering", "down"}
  /\ status[m] = "online" => voice[m] > left[m]

OrderInv == \A m \in Modules : OrderOf(m)

LEMMA HeadTail ==
  ASSUME NEW list \in Seq(Command), list # << >>, InOrder(list)
  PROVE  /\ Head(list) \in In(list) /\ In(Tail(list)) \subseteq In(list)
         /\ Tail(list) \in Seq(Command) /\ InOrder(Tail(list))
         /\ \A x \in In(Tail(list)) : Before(Head(list), x)
  <1>1. /\ Len(list) \in Nat /\ Len(list) >= 1 /\ Len(Tail(list)) = Len(list) - 1
        /\ Head(list) = list[1] /\ Tail(list) \in Seq(Command)
    OBVIOUS
  <1>2. ASSUME NEW i \in 1..Len(Tail(list))
        PROVE  i + 1 \in 2..Len(list) /\ Tail(list)[i] = list[i + 1]
    BY <1>1
  <1>3. InOrder(Tail(list))
    <2> SUFFICES ASSUME NEW i \in 1..Len(Tail(list)), NEW j \in 1..Len(Tail(list)), i < j
                 PROVE  Before(Tail(list)[i], Tail(list)[j])
      BY DEF InOrder
    <2>1. Before(list[i + 1], list[j + 1])
      BY <1>1, <1>2 DEF InOrder
    <2> QED BY <1>2, <2>1
  <1>4. ASSUME NEW x \in In(Tail(list))
        PROVE  x \in In(list) /\ Before(Head(list), x)
    <2>1. PICK i \in 1..Len(Tail(list)) : x = Tail(list)[i]
      BY DEF In
    <2>2. x = list[i + 1] /\ i + 1 \in 1..Len(list) /\ 1 < i + 1 /\ 1 \in 1..Len(list)
      BY <1>1, <1>2, <2>1
    <2>3. Before(list[1], list[i + 1])
      BY <2>2 DEF InOrder
    <2> QED BY <1>1, <2>2, <2>3 DEF In
  <1> QED BY <1>1, <1>3, <1>4 DEF In

LEMMA AppendInOrder ==
  ASSUME NEW list \in Seq(Command), NEW x \in Command, InOrder(list),
         \A y \in In(list) : Before(y, x)
  PROVE  /\ InOrder(Append(list, x)) /\ In(Append(list, x)) \subseteq In(list) \cup {x}
         /\ Append(list, x) \in Seq(Command)
  <1>1. /\ Len(list) \in Nat /\ Len(Append(list, x)) = Len(list) + 1
        /\ Append(list, x)[Len(list) + 1] = x /\ Append(list, x) \in Seq(Command)
        /\ \A i \in 1..Len(list) : Append(list, x)[i] = list[i]
    OBVIOUS
  <1>2. InOrder(Append(list, x))
    <2> SUFFICES ASSUME NEW i \in 1..(Len(list) + 1), NEW j \in 1..(Len(list) + 1), i < j
                 PROVE  Before(Append(list, x)[i], Append(list, x)[j])
      BY <1>1 DEF InOrder
    <2>1. i \in 1..Len(list)
      BY <1>1
    <2>2. CASE j = Len(list) + 1
      BY <1>1, <2>1, <2>2 DEF In
    <2>3. CASE j \in 1..Len(list)
      BY <1>1, <2>1, <2>3 DEF InOrder
    <2> QED BY <1>1, <2>2, <2>3
  <1>3. In(Append(list, x)) \subseteq In(list) \cup {x}
    <2> SUFFICES ASSUME NEW i \in 1..(Len(list) + 1)
                 PROVE  Append(list, x)[i] \in In(list) \cup {x}
      BY <1>1 DEF In
    <2>1. CASE i = Len(list) + 1
      BY <1>1, <2>1
    <2>2. CASE i \in 1..Len(list)
      BY <1>1, <2>2 DEF In
    <2> QED BY <1>1, <2>1, <2>2
  <1> QED BY <1>1, <1>2, <1>3

LEMMA InCommand ==
  ASSUME TypeOK, NEW m \in Modules
  PROVE  /\ incoming[m] \in Seq(Command) /\ outgoing[m] \in Seq(Command)
         /\ In(incoming[m]) \subseteq Command /\ In(outgoing[m]) \subseteq Command
         /\ \A x \in Command : x.by \in Nat
         /\ starts[m] \in Nat /\ left[m] \in Nat /\ voice[m] \in Nat
  <1>1. /\ incoming[m] \in Seq(Command) /\ outgoing[m] \in Seq(Command)
        /\ starts[m] \in Nat /\ left[m] \in Nat /\ voice[m] \in Nat
    BY BoundAssumption DEF TypeOK, BoundAssumption
  <1>2. In(incoming[m]) \subseteq Command
    BY <1>1 DEF In
  <1>3. In(outgoing[m]) \subseteq Command
    BY <1>1 DEF In
  <1>4. \A x \in Command : x.by \in Nat
    BY BoundAssumption DEF Command, Incarnations, BoundAssumption
  <1> QED BY <1>1, <1>2, <1>3, <1>4

(* Losing commands, going offline and stopping disturb nothing.             *)
LEMMA FewerKeeps ==
  ASSUME NEW m \in Modules, OrderOf(m),
         In(incoming[m])' \subseteq In(incoming[m]), InOrder(incoming[m])',
         In(outgoing[m])' \subseteq In(outgoing[m]), InOrder(outgoing[m])',
         voice'[m] = voice[m], left'[m] = left[m], starts'[m] = starts[m],
         status'[m] = "online" => status[m] = "online",
         phase[m] \in {"unregistering", "down"} => phase'[m] \in {"unregistering", "down"}
  PROVE  OrderOf(m)'
  <1>1. \A x \in In(incoming[m])', y \in In(outgoing[m])' : Before(x, y)
    BY DEF OrderOf
  <1>2. \A x \in (In(incoming[m]) \cup In(outgoing[m]))' : Fits(m, x)'
    BY DEF OrderOf, Fits
  <1> QED BY <1>1, <1>2 DEF OrderOf

LEMMA SameKeeps ==
  ASSUME NEW m \in Modules, OrderOf(m),
         incoming'[m] = incoming[m], outgoing'[m] = outgoing[m],
         voice'[m] = voice[m], left'[m] = left[m], starts'[m] = starts[m],
         status'[m] = "online" => status[m] = "online",
         phase[m] \in {"unregistering", "down"} => phase'[m] \in {"unregistering", "down"}
  PROVE  OrderOf(m)'
  <1>1. /\ In(incoming[m])' \subseteq In(incoming[m]) /\ InOrder(incoming[m])'
        /\ In(outgoing[m])' \subseteq In(outgoing[m]) /\ InOrder(outgoing[m])'
    BY DEF OrderOf, In, InOrder
  <1> QED BY <1>1, FewerKeeps

LEMMA EmptyInOrder == In(<< >>) = {} /\ InOrder(<< >>)
  BY DEF In, InOrder

(* A command of an incarnation that has not said its last, or of a new one. *)
LEMMA SendKeepsOrder ==
  ASSUME TypeOK, NEW m \in Modules, OrderOf(m),
         NEW kind \in {"register", "heartbeat", "unregister"}, NEW n \in Incarnations,
         Send(m, kind, n), starts'[m] = n,
         \/ n = starts[m] + 1 /\ kind = "register"
         \/ n = starts[m] /\ phase[m] \notin {"unregistering", "down"},
         kind = "unregister" => phase'[m] \in {"unregistering", "down"},
         UNCHANGED <<incoming, registryVars>>
  PROVE  OrderOf(m)'
  <1> DEFINE new == [kind |-> kind, by |-> n]
  <1>0. /\ new \in Command /\ new.by = n /\ new.kind = kind /\ n \in Nat
        /\ outgoing'[m] = Append(outgoing[m], new)
    BY BoundAssumption DEF Command, Incarnations, Send, TypeOK, BoundAssumption
  <1> HIDE DEF new
  <1>1. ASSUME NEW x \in In(incoming[m]) \cup In(outgoing[m])
        PROVE  Before(x, new) /\ Fits(m, x)'
    <2>1. x.by \in Nat /\ starts[m] \in Nat
      BY InCommand
    <2>2. Fits(m, x)
      BY DEF OrderOf
    <2>3. left'[m] = left[m] /\ voice'[m] = voice[m]
      BY DEF registryVars
    <2> QED BY <1>0, <2>1, <2>2, <2>3 DEF Before, Fits
  <1>2. /\ InOrder(outgoing[m])'
        /\ In(outgoing[m])' \subseteq In(outgoing[m]) \cup {new}
    <2>1. outgoing[m] \in Seq(Command) /\ InOrder(outgoing[m])
      BY InCommand DEF OrderOf
    <2>2. /\ InOrder(Append(outgoing[m], new))
          /\ In(Append(outgoing[m], new)) \subseteq In(outgoing[m]) \cup {new}
      BY <1>0, <1>1, <2>1, AppendInOrder
    <2>3. InOrder(outgoing[m])' = InOrder(outgoing'[m]) /\ In(outgoing[m])' = In(outgoing'[m])
      BY DEF InOrder, In
    <2> QED BY <1>0, <2>2, <2>3
  <1>3. In(incoming[m])' = In(incoming[m]) /\ InOrder(incoming[m])'
    BY DEF OrderOf, In, InOrder
  <1>4. /\ left[m] <= starts[m] /\ voice[m] <= starts[m]
        /\ left[m] \in Nat /\ voice[m] \in Nat /\ starts[m] \in Nat
        /\ left[m] = starts[m] => phase[m] \in {"unregistering", "down"}
        /\ left'[m] = left[m] /\ voice'[m] = voice[m] /\ status'[m] = status[m]
        /\ status[m] = "online" => voice[m] > left[m]
    BY InCommand DEF OrderOf, registryVars
  <1>5. left[m] < n /\ voice[m] <= n
    BY <1>0, <1>4
  <1>6. Fits(m, new)'
    BY <1>0, <1>4, <1>5 DEF Fits
  <1>7. \A x \in In(incoming[m])', y \in In(outgoing[m])' : Before(x, y)
    BY <1>1, <1>2, <1>3 DEF OrderOf
  <1>8. \A x \in (In(incoming[m]) \cup In(outgoing[m]))' : Fits(m, x)'
    BY <1>1, <1>2, <1>3, <1>6
  <1> QED BY <1>0, <1>2, <1>3, <1>4, <1>5, <1>7, <1>8 DEF OrderOf

LEMMA TransmitKeepsOrder ==
  ASSUME TypeOK, NEW m \in Modules, OrderOf(m), Transmit(m)
  PROVE  OrderOf(m)'
  <1> DEFINE first == Head(outgoing[m])
  <1>1. outgoing[m] \in Seq(Command) /\ incoming[m] \in Seq(Command)
    BY InCommand
  <1>2. /\ first \in In(outgoing[m]) /\ In(Tail(outgoing[m])) \subseteq In(outgoing[m])
        /\ InOrder(Tail(outgoing[m]))
        /\ \A x \in In(Tail(outgoing[m])) : Before(first, x)
    BY <1>1, HeadTail DEF OrderOf, Transmit
  <1>3. /\ outgoing'[m] = Tail(outgoing[m])
        /\ voice'[m] = voice[m] /\ left'[m] = left[m] /\ starts'[m] = starts[m]
        /\ status'[m] = status[m] /\ phase'[m] = phase[m]
    BY DEF Transmit, TypeOK, moduleVars, registryVars
  <1>4. In(outgoing[m])' \subseteq In(outgoing[m]) /\ InOrder(outgoing[m])'
    <2>1. InOrder(outgoing[m])' = InOrder(outgoing'[m]) /\ In(outgoing[m])' = In(outgoing'[m])
      BY DEF InOrder, In
    <2> QED BY <1>2, <1>3, <2>1
  <1>5. CASE incoming' = incoming
    <2>1. In(incoming[m])' = In(incoming[m]) /\ InOrder(incoming[m])'
      BY <1>5 DEF OrderOf, In, InOrder
    <2> QED BY <1>3, <1>4, <2>1, FewerKeeps
  <1>6. CASE incoming'[m] = Append(incoming[m], first)
    <2>1. first \in Command /\ \A x \in In(incoming[m]) : Before(x, first)
      BY <1>2, InCommand DEF OrderOf
    <2> HIDE DEF first
    <2>2. /\ InOrder(Append(incoming[m], first))
          /\ In(Append(incoming[m], first)) \subseteq In(incoming[m]) \cup {first}
      BY <1>1, <2>1, AppendInOrder DEF OrderOf
    <2>3. InOrder(incoming[m])' /\ In(incoming[m])' \subseteq In(incoming[m]) \cup {first}
      <3>1. InOrder(incoming[m])' = InOrder(incoming'[m]) /\ In(incoming[m])' = In(incoming'[m])
        BY DEF InOrder, In
      <3> QED BY <1>6, <2>2, <3>1
    <2>4. \A x \in In(incoming[m])', y \in In(outgoing[m])' : Before(x, y)
      <3>1. In(outgoing[m])' = In(Tail(outgoing[m]))
        BY <1>3 DEF In
      <3> QED BY <1>2, <2>3, <3>1 DEF OrderOf
    <2>5. \A x \in (In(incoming[m]) \cup In(outgoing[m]))' : Fits(m, x)'
      BY <1>2, <1>3, <1>4, <2>3 DEF OrderOf, Fits
    <2> QED BY <1>3, <1>4, <2>3, <2>4, <2>5 DEF OrderOf
  <1> QED BY <1>1, <1>5, <1>6 DEF Transmit, TypeOK

LEMMA HandleKeepsOrder ==
  ASSUME TypeOK, NEW m \in Modules, OrderOf(m), Handle(m)
  PROVE  OrderOf(m)'
  <1> DEFINE first == Head(incoming[m])
  <1>1. /\ incoming[m] # << >> /\ incoming'[m] = Tail(incoming[m])
        /\ outgoing' = outgoing /\ starts' = starts /\ phase' = phase
    BY DEF Handle, HandleRegister, RejectRegister, HandleHeartbeat, HandleUnregister, Takes,
       moduleVars, TypeOK
  <1>2. /\ first \in In(incoming[m]) /\ In(Tail(incoming[m])) \subseteq In(incoming[m])
        /\ InOrder(Tail(incoming[m]))
        /\ \A x \in In(Tail(incoming[m])) : Before(first, x)
    BY <1>1, InCommand, HeadTail DEF OrderOf
  <1>3. InOrder(incoming[m])' /\ In(incoming[m])' = In(Tail(incoming[m]))
    <2>1. InOrder(incoming[m])' = InOrder(incoming'[m]) /\ In(incoming[m])' = In(incoming'[m])
      BY DEF InOrder, In
    <2> QED BY <1>1, <1>2, <2>1
  <1>4. In(outgoing[m])' = In(outgoing[m]) /\ InOrder(outgoing[m])'
    BY <1>1 DEF OrderOf, In, InOrder
  <1>5. /\ first.by \in Nat /\ starts[m] \in Nat /\ left[m] \in Nat /\ voice[m] \in Nat
        /\ \A x \in In(incoming[m]) \cup In(outgoing[m]) : x.by \in Nat
    BY <1>2, InCommand
  <1>6. /\ Fits(m, first)
        /\ \A x \in (In(incoming[m]) \cup In(outgoing[m]))' :
             Before(first, x) /\ Fits(m, x) /\ x.by \in Nat
    BY <1>2, <1>3, <1>4, <1>5 DEF OrderOf
  <1>7. \A x \in In(incoming[m])', y \in In(outgoing[m])' : Before(x, y)
    BY <1>2, <1>3, <1>4 DEF OrderOf
  <1>8. CASE RejectRegister(m)
    BY <1>1, <1>2, <1>3, <1>4, <1>8, FewerKeeps DEF RejectRegister, registryVars
  <1>9. CASE HandleRegister(m) \/ HandleHeartbeat(m)
    <2>1. voice'[m] = first.by /\ left'[m] = left[m] /\ status'[m] = "online"
      BY <1>9 DEF HandleRegister, HandleHeartbeat, SetOnline, TypeOK
    <2> HIDE DEF first
    <2>2. \A x \in (In(incoming[m]) \cup In(outgoing[m]))' : Fits(m, x)'
      BY <1>1, <1>6, <2>1 DEF Fits, Before
    <2>3. voice'[m] > left'[m] /\ voice'[m] <= starts'[m] /\ left'[m] <= starts'[m]
      BY <1>1, <1>5, <1>6, <2>1 DEF Fits, OrderOf
    <2>4. left'[m] = starts'[m] => phase'[m] \in {"unregistering", "down"}
      BY <1>1, <2>1 DEF OrderOf
    <2> QED BY <1>3, <1>4, <1>7, <2>2, <2>3, <2>4 DEF OrderOf
  <1>10. CASE HandleUnregister(m)
    <2>1. /\ first.kind = "unregister" /\ left'[m] = first.by
          /\ voice'[m] = voice[m] /\ status'[m] # "online"
      BY <1>10 DEF HandleUnregister, Takes, TypeOK
    <2> HIDE DEF first
    <2>2. \A x \in (In(incoming[m]) \cup In(outgoing[m]))' : Fits(m, x)'
      BY <1>1, <1>6, <2>1 DEF Fits, Before
    <2>3. voice'[m] <= starts'[m] /\ left'[m] <= starts'[m]
      BY <1>1, <1>5, <1>6, <2>1 DEF Fits, OrderOf
    <2>4. left'[m] = starts'[m] => phase'[m] \in {"unregistering", "down"}
      BY <1>1, <1>6, <2>1 DEF Fits
    <2> QED BY <1>3, <1>4, <1>7, <2>1, <2>2, <2>3, <2>4 DEF OrderOf
  <1> QED BY <1>8, <1>9, <1>10 DEF Handle

LEMMA OrderStays == TypeOK /\ LifeInv /\ OrderInv /\ [Next]_vars => OrderInv'
  <1> SUFFICES ASSUME TypeOK, LifeInv, OrderInv, [Next]_vars, NEW n \in Modules
               PROVE  OrderOf(n)'
    BY DEF OrderInv
  <1>0. OrderOf(n)
    BY DEF OrderInv
  <1>1. ASSUME NEW m \in Modules, Start(m)
        PROVE  OrderOf(n)'
    <2>1. CASE m = n
      <3>1. /\ starts[m] + 1 \in Incarnations /\ starts'[m] = starts[m] + 1
            /\ Send(m, "register", starts[m] + 1) /\ UNCHANGED <<incoming, registryVars>>
        BY <1>1, BoundAssumption DEF Start, TypeOK, Incarnations, BoundAssumption
      <3> QED BY <1>0, <2>1, <3>1, SendKeepsOrder
    <2>2. CASE m # n
      BY <1>0, <1>1, <2>2, SameKeeps DEF Start, Send, TypeOK, registryVars
    <2> QED BY <2>1, <2>2
  <1>2. ASSUME NEW m \in Modules, BeatSends(m)
        PROVE  OrderOf(n)'
    <2>1. CASE m = n
      <3>1. phase[m] \notin {"unregistering", "down"}
        BY <1>2 DEF BeatSends, LifeInv
      <3>2. /\ starts[m] \in Incarnations /\ starts'[m] = starts[m]
            /\ Send(m, "heartbeat", starts[m]) /\ UNCHANGED <<incoming, registryVars>>
        BY <1>2, <3>1, BoundAssumption DEF BeatSends, TypeOK, LifeInv, Incarnations, BoundAssumption
      <3> QED BY <1>0, <2>1, <3>1, <3>2, SendKeepsOrder
    <2>2. CASE m # n
      BY <1>0, <1>2, <2>2, SameKeeps DEF BeatSends, Send, TypeOK, registryVars
    <2> QED BY <2>1, <2>2
  <1>3. ASSUME NEW m \in Modules, JoinEnds(m)
        PROVE  OrderOf(n)'
    <2>1. CASE m = n
      <3>1. phase[m] \notin {"unregistering", "down"} /\ phase'[m] = "unregistering"
        BY <1>3 DEF JoinEnds, Unregister, TypeOK
      <3>2. /\ starts[m] \in Incarnations /\ starts'[m] = starts[m]
            /\ Send(m, "unregister", starts[m]) /\ UNCHANGED <<incoming, registryVars>>
        BY <1>3, <3>1, BoundAssumption
        DEF JoinEnds, Unregister, TypeOK, LifeInv, Incarnations, BoundAssumption
      <3> QED BY <1>0, <2>1, <3>1, <3>2, SendKeepsOrder
    <2>2. CASE m # n
      BY <1>0, <1>3, <2>2, SameKeeps DEF JoinEnds, Unregister, Send, TypeOK, registryVars
    <2> QED BY <2>1, <2>2
  <1>4. ASSUME NEW m \in Modules, Ends(m)
        PROVE  OrderOf(n)'
    <2>1. CASE m = n
      <3>1. In(outgoing[n])' = {} /\ InOrder(outgoing[n])'
        BY <1>4, <2>1, EmptyInOrder DEF Ends, TypeOK
      <3>2. In(incoming[n])' = In(incoming[n]) /\ InOrder(incoming[n])'
        BY <1>0, <1>4 DEF Ends, OrderOf, In, InOrder
      <3> QED BY <1>0, <1>4, <2>1, <3>1, <3>2, FewerKeeps DEF Ends, TypeOK, registryVars
    <2>2. CASE m # n
      BY <1>0, <1>4, <2>2, SameKeeps DEF Ends, TypeOK, registryVars
    <2> QED BY <2>1, <2>2
  <1>5. ASSUME NEW m \in Modules,
               RegisterReturns(m) \/ BeatWakes(m) \/ BeatReturns(m) \/ Stop(m)
                 \/ HandlerBreaks(m)
        PROVE  OrderOf(n)'
    BY <1>0, <1>5, SameKeeps
    DEF RegisterReturns, BeatWakes, BeatReturns, Stop, HandlerBreaks, TypeOK, registryVars
  <1>6. ASSUME NEW m \in Modules, Transmit(m)
        PROVE  OrderOf(n)'
    <2>1. CASE m = n
      BY <1>0, <1>6, <2>1, TransmitKeepsOrder
    <2>2. CASE m # n
      BY <1>0, <1>6, <2>2, SameKeeps DEF Transmit, TypeOK, moduleVars, registryVars
    <2> QED BY <2>1, <2>2
  <1>7. ASSUME NEW m \in Modules, Handle(m)
        PROVE  OrderOf(n)'
    <2>1. CASE m = n
      BY <1>0, <1>7, <2>1, HandleKeepsOrder
    <2>2. CASE m # n
      <3>1. /\ incoming'[n] = incoming[n] /\ outgoing' = outgoing
            /\ starts' = starts /\ phase' = phase
        BY <1>7, <2>2 DEF Handle, HandleRegister, RejectRegister, HandleHeartbeat,
           HandleUnregister, Takes, moduleVars, TypeOK
      <3>2. voice'[n] = voice[n] /\ left'[n] = left[n] /\ status'[n] = status[n]
        BY <1>7, <2>2 DEF Handle, HandleRegister, RejectRegister, HandleHeartbeat,
           HandleUnregister, SetOnline, registryVars, TypeOK
      <3> QED BY <1>0, <3>1, <3>2, SameKeeps
    <2> QED BY <2>1, <2>2
  <1>8. ASSUME UNCHANGED <<outgoing, starts, phase, voice, left>>,
               incoming' = incoming \/ incoming' = [m \in Modules |-> << >>],
               status'[n] = "online" => status[n] = "online"
        PROVE  OrderOf(n)'
    <2>1. In(incoming[n])' \subseteq In(incoming[n]) /\ InOrder(incoming[n])'
      <3>1. CASE incoming' = incoming
        BY <1>0, <3>1 DEF OrderOf, In, InOrder
      <3>2. CASE incoming' = [m \in Modules |-> << >>]
        BY <3>2, EmptyInOrder
      <3> QED BY <1>8, <3>1, <3>2
    <2>2. In(outgoing[n])' = In(outgoing[n]) /\ InOrder(outgoing[n])'
      BY <1>0, <1>8 DEF OrderOf, In, InOrder
    <2> QED BY <1>0, <1>8, <2>1, <2>2, FewerKeeps
  <1>9. CASE NodeStarts \/ NodeReady \/ NodeStops \/ NodeStopped \/ NodeCrashes \/ BrokerBreaks
    BY <1>8, <1>9 DEF NodeStarts, NodeReady, NodeStops, NodeStopped, NodeCrashes, BrokerBreaks,
       moduleVars, registryVars
  <1>10. CASE (\E timeout \in Timeouts : Poll(timeout)) \/ Tick \/ UNCHANGED vars
    <2>1. UNCHANGED <<outgoing, incoming, starts, phase, voice, left>>
      BY <1>10 DEF Poll, Tick, vars, moduleVars, registryVars
    <2>2. status'[n] = "online" => status[n] = "online"
      <3>1. CASE \E timeout \in Timeouts : Poll(timeout)
        <4>1. PICK timeout \in Timeouts : Poll(timeout)
          BY <3>1
        <4>2. status'[n] = IF Stale(n, timeout) THEN "offline" ELSE status[n]
          BY <4>1 DEF Poll
        <4> QED BY <4>2
      <3>2. CASE Tick \/ UNCHANGED vars
        BY <3>2 DEF Tick, vars, registryVars
      <3> QED BY <1>10, <3>1, <3>2
    <2> QED BY <1>8, <2>1, <2>2
  <1> QED BY <1>1, <1>2, <1>3, <1>4, <1>5, <1>6, <1>7, <1>9, <1>10
        DEF Next, Interface, Heartbeat, UnregisterReturns, Crash

LEMMA OrderHolds == Spec => []OrderInv
  <1>1. Init => OrderInv
    <2> SUFFICES ASSUME Init, NEW m \in Modules
                 PROVE  OrderOf(m)
      BY DEF OrderInv
    <2>1. /\ incoming[m] = << >> /\ outgoing[m] = << >>
          /\ starts[m] = 0 /\ voice[m] = 0 /\ left[m] = 0
          /\ phase[m] = "down" /\ status[m] = "unknown"
      BY DEF Init
    <2>2. In(incoming[m]) = {} /\ In(outgoing[m]) = {} /\ InOrder(incoming[m]) /\ InOrder(outgoing[m])
      BY <2>1, EmptyInOrder
    <2> QED BY <2>1, <2>2 DEF OrderOf
  <1> QED BY <1>1, OrderStays, TypeCorrect, PTL DEF Spec

(* A module is online only on the word of an incarnation that has not left, *)
(* however commands are lost, delayed, and left behind by crashes.          *)
THEOREM OnlineCorrect == Spec => []OnlineOnItsWord
  <1>1. OrderInv => OnlineOnItsWord
    BY DEF OrderInv, OrderOf, OnlineOnItsWord
  <1> QED BY <1>1, OrderHolds, PTL

(* A registration is refused only while an earlier incarnation, or this     *)
(* one, is the last heard of and has not left.                              *)
THEOREM RefusalsCorrect == Spec => RefusedOnlyIfStillThere
  <1> DEFINE Refused ==
        \A m \in Modules :
          RejectRegister(m) => left[m] < voice[m] /\ voice[m] <= Head(incoming[m]).by
  <1>1. ASSUME TypeOK, OrderInv
        PROVE  Refused
    <2> SUFFICES ASSUME NEW m \in Modules, RejectRegister(m)
                 PROVE  left[m] < voice[m] /\ voice[m] <= Head(incoming[m]).by
      OBVIOUS
    <2>1. status[m] = "online" /\ incoming[m] # << >> /\ OrderOf(m)
      BY <1>1 DEF RejectRegister, Takes, OrderInv
    <2>2. Head(incoming[m]) \in In(incoming[m])
      BY <1>1, <2>1, InCommand, HeadTail DEF OrderOf
    <2>3. Fits(m, Head(incoming[m])) /\ voice[m] > left[m]
      BY <2>1, <2>2 DEF OrderOf
    <2>4. voice[m] \in Nat /\ left[m] \in Nat
      BY <1>1, InCommand
    <2> QED BY <2>3, <2>4 DEF Fits
  <1>2. TypeOK /\ OrderInv => [Refused]_vars
    BY <1>1
  <1> QED BY <1>2, OrderHolds, TypeCorrect, PTL DEF RefusedOnlyIfStillThere
=============================================================================
