-------------------------- MODULE MqttSessionProofs --------------------------
(***************************************************************************)
(* Three results for every profile, every capacity and any number of       *)
(* subscriptions and messages.                                             *)
(*   - There is one connection to the broker at a time.  The reason is in  *)
(*     the view: it starts a subscription only while none runs, and it     *)
(*     forgets a running one only when told that its loop has ended.       *)
(*   - No message is lost or overtaken on its way to the view.             *)
(*   - An acknowledgement is taken for the request it answers.  The loop   *)
(*     goes by order alone: what it waits for is, from the oldest on, what *)
(*     is answered and on its way, then what the broker has not answered,  *)
(*     each kind in its order, because a command is waited for only if its *)
(*     request was taken.                                                  *)
(***************************************************************************)
EXTENDS MqttSession, TLAPS

Phases == {"none", "starting", "select", "deliver", "closing", "ended", "failed", "noted"}

(* The view knows of the loop that lives. *)
Known == \A s \in Sessions : Live(s) => s = request /\ running

SessionInv ==
  /\ request \in 0..MaxSessions
  /\ phase \in [Sessions -> Phases]
  /\ running => request # 0
  /\ Known

(* A step of a loop that lives moves this loop only, and the view stays as it is. *)
LoopMoves(s) ==
  /\ Live(s)
  /\ \E p \in Phases : phase' = [phase EXCEPT ![s] = p]
  /\ UNCHANGED <<request, running>>

(* Each step of the driver's loop, and the end of its connection, is of this kind. *)
LEMMA LoopStep ==
  ASSUME NEW s \in Sessions, Loop(s) \/ ConnectionLost(s)
  PROVE  LoopMoves(s)
<1> DEFINE Moves == \E p \in Phases : phase' = [phase EXCEPT ![s] = p]
<1>1. Again(s) => Moves
  BY DEF Again, Goto, Phases
<1>2. ASSUME NEW e, End(s, e) PROVE Moves
  BY <1>2 DEF End, Phases
<1>3. CASE Begin(s)
  BY <1>1, <1>2, <1>3 DEF Begin, LoopMoves, Live, viewVars
<1>4. CASE Close(s)
  BY <1>2, <1>4 DEF Close, LoopMoves, Live, viewVars
<1>5. CASE HandleCommand(s)
  BY <1>1, <1>5 DEF HandleCommand, LoopMoves, Live, viewVars
<1>6. CASE HandleAck(s)
  BY <1>1, <1>6 DEF HandleAck, LoopMoves, Live, viewVars
<1>7. CASE HandlePublish(s)
  BY <1>2, <1>7 DEF HandlePublish, Goto, Phases, LoopMoves, Live, viewVars
<1>8. CASE Deliver(s)
  BY <1>1, <1>2, <1>8 DEF Deliver, LoopMoves, Live, viewVars
<1>9. CASE Disconnect(s)
  BY <1>1, <1>9 DEF Disconnect, LoopMoves, Live, viewVars
<1>10. CASE ConnectionLost(s)
  BY <1>2, <1>10 DEF ConnectionLost, LoopMoves, Live, viewVars
<1> QED
  BY <1>3, <1>4, <1>5, <1>6, <1>7, <1>8, <1>9, <1>10 DEF Loop

(* What the view does besides starting and noting an end leaves sessions and loops alone. *)
LEMMA ViewStep ==
  ASSUME NEW s \in Sessions,
         \/ \E f \in Topics : Toggle(f)
         \/ Stop \/ ChooseProtocol \/ Select \/ Save \/ Saved
         \/ ReceiveStatus(s) \/ ReceiveMessage(s) \/ Answer(s) \/ Publish(s)
  PROVE  UNCHANGED <<request, running, phase>>
  BY DEF Toggle, Stop, ChooseProtocol, Select, Save, Saved, TakeProfile,
         ReceiveStatus, ReceiveMessage, Answer, Publish, viewVars

(* SessionInv is inductive. *)
LEMMA SessionStep ==
  ASSUME MaxSessions \in Nat, SessionInv, [Next]_vars
  PROVE  SessionInv'
<1>1. CASE UNCHANGED <<request, running, phase>>
  BY <1>1 DEF SessionInv, Known, Live
<1>2. ASSUME NEW s \in Sessions, LoopMoves(s)
      PROVE  SessionInv'
  BY <1>2 DEF LoopMoves, SessionInv, Known, Live
<1>3. ASSUME NEW fs, StartSubscription(fs)
      PROVE  SessionInv'
  <2>1. request' = request + 1 /\ running' /\ request + 1 \in Sessions
    BY <1>3 DEF StartSubscription, SessionInv, Sessions
  <2>2. phase' = [phase EXCEPT ![request + 1] = "starting"]
    BY <1>3 DEF StartSubscription
  <2>3. \A s \in Sessions : ~ Live(s)
    BY <1>3 DEF StartSubscription, SessionInv, Known
  <2> QED
    BY <2>1, <2>2, <2>3 DEF SessionInv, Known, Live, Phases, Sessions
(* Whoever is noted has ended; if the view believed it to be the running one, none lives. *)
<1>4. ASSUME NEW s \in Sessions, SubscriptionEnded(s)
      PROVE  SessionInv'
  <2>1. phase' = [phase EXCEPT ![s] = "noted"] /\ request' = request /\ ~ Live(s)
    BY <1>4 DEF SubscriptionEnded, Live
  <2>2. \A t \in Sessions : Live(t)' => t # s /\ Live(t)
    BY <2>1 DEF SessionInv, Live
  <2>3. (running' => running) /\ (s # request => running' = running)
    BY <1>4 DEF SubscriptionEnded, Heard
  <2> QED
    BY <2>1, <2>2, <2>3 DEF SessionInv, Known, Phases
<1>5. CASE UNCHANGED vars
  BY <1>1, <1>5 DEF vars, viewVars
<1>6. CASE View
  <2>1. CASE \E fs \in {Topics} \cup {{f} : f \in Topics} : StartSubscription(fs)
    BY <1>3, <2>1
  <2>2. CASE \/ \E f \in Topics : Toggle(f)
             \/ Stop \/ ChooseProtocol \/ Select \/ Save \/ Saved
    BY <1>1, <2>2 DEF Toggle, Stop, ChooseProtocol, Select, Save, Saved, TakeProfile
  <2> QED
    BY <1>6, <2>1, <2>2 DEF View
<1>7. ASSUME NEW s \in Sessions,
             Tasks(s) \/ Loop(s) \/ ConnectionLost(s) \/ Answer(s) \/ Publish(s)
      PROVE  SessionInv'
  <2>1. CASE ReceiveStatus(s) \/ ReceiveMessage(s) \/ Answer(s) \/ Publish(s)
    BY <1>1, <2>1, ViewStep
  <2>2. CASE SubscriptionEnded(s)
    BY <1>4, <2>2
  <2>3. CASE Loop(s) \/ ConnectionLost(s)
    BY <1>2, <2>3, LoopStep
  <2> QED
    BY <1>7, <2>1, <2>2, <2>3 DEF Tasks
<1> QED
  BY <1>5, <1>6, <1>7 DEF Next

(* profile_state.rs and mqtt_operations.rs: whatever is started, stopped, saved and selected,
   no two loops are connected to the broker at once. *)
THEOREM OneConnection == Spec => []OneSession
<1> USE MqttConstants
<1>1. Init => SessionInv
  BY DEF Init, SessionInv, Known, Live, Phases
<1>2. SessionInv /\ [Next]_vars => SessionInv'
  BY SessionStep
<1>3. SessionInv => OneSession
  BY DEF SessionInv, Known, OneSession
<1> QED
  BY <1>1, <1>2, <1>3, PTL DEF Spec

-----------------------------------------------------------------------------
(* A sequence of whatever it holds *)
IsSequence(q) == q \in Seq({q[i] : i \in 1..Len(q)})

(* Sequences of anything are such. *)
LEMMA SequenceOfSome ==
  ASSUME NEW S, NEW q \in Seq(S)
  PROVE  IsSequence(q)
<1>1. Len(q) \in Nat /\ q \in [1..Len(q) -> S]
  OBVIOUS
<1>2. q \in [1..Len(q) -> {q[i] : i \in 1..Len(q)}]
  BY <1>1
<1> QED
  BY <1>1, <1>2 DEF IsSequence

(* Taking a packet off, and adding one *)
LEMMA PacketTail ==
  ASSUME NEW q, IsSequence(q), q # <<>>
  PROVE  /\ IsSequence(Tail(q))
         /\ Len(q) \in Nat \ {0}
         /\ Len(Tail(q)) = Len(q) - 1
         /\ DOMAIN q = 1..Len(q) /\ DOMAIN Tail(q) = 1..(Len(q) - 1)
         /\ Head(q) = q[1]
         /\ \A i \in 1..(Len(q) - 1) : Tail(q)[i] = q[i + 1]
<1> DEFINE S == {q[i] : i \in 1..Len(q)}
<1>1. q \in Seq(S)
  BY DEF IsSequence
<1> HIDE DEF S
<1>2. Tail(q) \in Seq(S)
  BY <1>1
<1>3. IsSequence(Tail(q))
  BY <1>2, SequenceOfSome
<1> QED
  BY <1>1, <1>2, <1>3

(* A packet the broker sends comes behind all that are on the way. *)
LEMMA PacketAppend ==
  ASSUME NEW q, IsSequence(q), NEW e
  PROVE  /\ IsSequence(Append(q, e))
         /\ Len(q) \in Nat /\ Len(Append(q, e)) = Len(q) + 1
         /\ DOMAIN q = 1..Len(q) /\ DOMAIN Append(q, e) = 1..(Len(q) + 1)
         /\ \A i \in 1..Len(q) : Append(q, e)[i] = q[i]
         /\ Append(q, e)[Len(q) + 1] = e
<1> DEFINE S == {q[i] : i \in 1..Len(q)}
           T == S \cup {e}
<1>1. q \in Seq(S)
  BY DEF IsSequence
<1> HIDE DEF S
<1>2. q \in Seq(T) /\ e \in T
  BY <1>1
<1> HIDE DEF T
<1>3. Append(q, e) \in Seq(T)
  BY <1>2
<1>4. IsSequence(Append(q, e))
  BY <1>3, SequenceOfSome
<1> QED
  BY <1>2, <1>3, <1>4

-----------------------------------------------------------------------------
(* Nothing is lost where nothing was sent. *)
LEMMA OrderEmpty == InOrder(<<>>, <<>>, 0)
<1>1. Publishes(<<>>) = {}
  BY DEF Publishes
<1> QED
  BY <1>1 DEF InOrder

(* The messages among packets of which the first one was taken off *)
LEMMA PublishesShift ==
  ASSUME NEW q, IsSequence(q), q # <<>>, NEW r, r = Tail(q)
  PROVE  /\ \A i \in Publishes(r) : i \in Nat \ {0} /\ (i + 1) \in Publishes(q) /\ r[i] = q[i + 1]
         /\ \A i \in Publishes(q) : i \in Nat \ {0} /\ (i # 1 => (i - 1) \in Publishes(r))
         /\ 1 \in Publishes(q) <=> q[1].kind = "publish"
BY PacketTail DEF Publishes

(* An answer of the broker is taken off and thrown away. *)
LEMMA OrderTakeAnswer ==
  ASSUME NEW ch \in Seq(Nat), NEW q, IsSequence(q), q # <<>>, Head(q).kind # "publish",
         NEW n \in Nat, InOrder(ch, q, n)
  PROVE  InOrder(ch, Tail(q), n)
<1>1. PICK taken \in 0..(n - Len(ch)) :
        /\ \A i \in DOMAIN ch : ch[i] = taken + i
        /\ {q[i].number : i \in Publishes(q)} = (taken + Len(ch) + 1)..n
        /\ \A i, j \in Publishes(q) : i < j => q[i].number < q[j].number
  BY DEF InOrder
<1>2. PICK r : r = Tail(q)
  OBVIOUS
<1>3. 1 \notin Publishes(q)
  <2>1. Head(q) = q[1]
    BY PacketTail
  <2> QED
    BY <2>1 DEF Publishes
<1>4. /\ \A i \in Publishes(r) : i \in Nat \ {0} /\ (i + 1) \in Publishes(q) /\ r[i] = q[i + 1]
      /\ \A i \in Publishes(q) : i \in Nat \ {0} /\ (i - 1) \in Publishes(r)
  BY <1>2, <1>3, PublishesShift
<1>5. {r[i].number : i \in Publishes(r)} = {q[i].number : i \in Publishes(q)}
  <2>1. ASSUME NEW i \in Publishes(r) PROVE \E j \in Publishes(q) : r[i].number = q[j].number
    BY <1>4
  <2>2. ASSUME NEW j \in Publishes(q) PROVE \E i \in Publishes(r) : r[i].number = q[j].number
    <3>1. (j - 1) \in Publishes(r) /\ (j - 1) + 1 = j
      BY <1>4
    <3> QED
      BY <1>4, <3>1
  <2> QED
    BY <2>1, <2>2
<1>6. \A i, j \in Publishes(r) : i < j => r[i].number < r[j].number
  BY <1>1, <1>4
<1>7. InOrder(ch, r, n)
  BY <1>1, <1>5, <1>6 DEF InOrder
<1> QED
  BY <1>2, <1>7

(* A message goes from the packets to the channel. *)
LEMMA OrderDeliver ==
  ASSUME NEW ch \in Seq(Nat), NEW q, IsSequence(q), q # <<>>, Head(q).kind = "publish",
         NEW n \in Nat, InOrder(ch, q, n)
  PROVE  Head(q).number \in Nat /\ InOrder(Append(ch, Head(q).number), Tail(q), n)
<1>1. PICK taken \in 0..(n - Len(ch)) :
        /\ \A i \in DOMAIN ch : ch[i] = taken + i
        /\ {q[i].number : i \in Publishes(q)} = (taken + Len(ch) + 1)..n
        /\ \A i, j \in Publishes(q) : i < j => q[i].number < q[j].number
  BY DEF InOrder
<1>2. PICK r : r = Tail(q)
  OBVIOUS
<1>3. PICK m : m = Head(q).number
  OBVIOUS
<1>4. PICK first : first = taken + Len(ch) + 1
  OBVIOUS
<1>5. 1 \in Publishes(q) /\ q[1].number = m
  BY <1>3, PacketTail, PublishesShift
<1>6. /\ \A i \in Publishes(r) : i \in Nat \ {0} /\ (i + 1) \in Publishes(q) /\ r[i] = q[i + 1]
      /\ \A i \in Publishes(q) : i \in Nat \ {0} /\ (i # 1 => (i - 1) \in Publishes(r))
  BY <1>2, PublishesShift
<1>7. first \in Nat /\ m \in first..n
  BY <1>1, <1>4, <1>5
<1>8. \A i \in Publishes(q) : q[i].number \in first..n /\ (i # 1 => m < q[i].number)
  <2>1. ASSUME NEW i \in Publishes(q) PROVE q[i].number \in first..n
    BY <1>1, <1>4
  <2>2. ASSUME NEW i \in Publishes(q), i # 1 PROVE m < q[i].number
    <3>1. 1 < i
      BY <1>6, <2>2
    <3> QED
      BY <1>1, <1>5, <3>1
  <2> QED
    BY <2>1, <2>2
<1>9. m = first
  <2>0. first \in first..n /\ {q[i].number : i \in Publishes(q)} = first..n
    BY <1>1, <1>4, <1>7
  <2>1. PICK i \in Publishes(q) : q[i].number = first
    BY <2>0
  <2> QED
    BY <1>5, <1>7, <1>8, <2>1
<1>10. {r[i].number : i \in Publishes(r)} = (first + 1)..n
  <2>1. ASSUME NEW i \in Publishes(r) PROVE r[i].number \in (first + 1)..n
    <3>1. (i + 1) \in Publishes(q) /\ i + 1 # 1 /\ r[i].number = q[i + 1].number
      BY <1>6
    <3>2. q[i + 1].number \in first..n /\ m < q[i + 1].number
      BY <1>8, <3>1
    <3> QED
      BY <1>7, <1>9, <3>1, <3>2
  <2>2. ASSUME NEW k \in (first + 1)..n PROVE \E i \in Publishes(r) : r[i].number = k
    <3>1. k \in first..n /\ k # first
      BY <1>7
    <3>2. PICK i \in Publishes(q) : q[i].number = k
      <4>1. k \in {q[i].number : i \in Publishes(q)}
        BY <1>1, <1>4, <3>1
      <4> QED
        BY <4>1
    <3>3. i # 1
      BY <1>5, <1>9, <3>1, <3>2
    <3>4. (i - 1) \in Publishes(r) /\ (i - 1) + 1 = i
      BY <1>6, <3>3
    <3>5. r[i - 1] = q[i]
      BY <1>6, <3>4
    <3> QED
      BY <3>2, <3>4, <3>5
  <2> QED
    BY <2>1, <2>2
<1>11. \A i, j \in Publishes(r) : i < j => r[i].number < r[j].number
  BY <1>1, <1>6
<1>12. PICK longer : longer = Append(ch, m)
  OBVIOUS
<1>13. /\ Len(longer) = Len(ch) + 1
       /\ \A i \in DOMAIN longer : longer[i] = taken + i
  <2>1. m \in Nat
    BY <1>7
  <2>2. ASSUME NEW i \in 1..(Len(ch) + 1) PROVE Append(ch, m)[i] = taken + i
    <3>1. CASE i = Len(ch) + 1
      BY <1>1, <1>4, <1>9, <2>1, <3>1
    <3>2. CASE i # Len(ch) + 1
      BY <1>1, <2>1, <3>2
    <3> QED
      BY <3>1, <3>2
  <2> QED
    BY <1>12, <2>1, <2>2
<1>14. Len(ch) \in Nat /\ taken \in 0..(n - Len(longer)) /\ taken + Len(longer) + 1 = first + 1
  BY <1>1, <1>4, <1>7, <1>9, <1>13
<1>15. InOrder(longer, r, n)
  BY <1>10, <1>11, <1>13, <1>14 DEF InOrder
<1> QED
  BY <1>2, <1>3, <1>7, <1>12, <1>15

(* The broker answers a request. *)
LEMMA OrderAnswer ==
  ASSUME NEW ch \in Seq(Nat), NEW q, IsSequence(q), NEW e, e.kind # "publish",
         NEW n \in Nat, InOrder(ch, q, n)
  PROVE  InOrder(ch, Append(q, e), n)
<1>1. /\ Publishes(Append(q, e)) = Publishes(q)
      /\ \A i \in Publishes(q) : Append(q, e)[i] = q[i]
  BY PacketAppend DEF Publishes
<1>2. {Append(q, e)[i].number : i \in Publishes(Append(q, e))} = {q[i].number : i \in Publishes(q)}
  BY <1>1
<1> QED
  BY <1>1, <1>2 DEF InOrder

(* The broker publishes the next message. *)
LEMMA OrderPublish ==
  ASSUME NEW ch \in Seq(Nat), NEW q, IsSequence(q), NEW e, e.kind = "publish",
         NEW n \in Nat, e.number = n + 1, InOrder(ch, q, n)
  PROVE  InOrder(ch, Append(q, e), n + 1)
<1>1. PICK taken \in 0..(n - Len(ch)) :
        /\ \A i \in DOMAIN ch : ch[i] = taken + i
        /\ {q[i].number : i \in Publishes(q)} = (taken + Len(ch) + 1)..n
        /\ \A i, j \in Publishes(q) : i < j => q[i].number < q[j].number
  BY DEF InOrder
<1>2. PICK r : r = Append(q, e)
  OBVIOUS
<1>3. PICK last : last = Len(q) + 1
  OBVIOUS
<1>4. /\ last \in Nat /\ Publishes(r) = Publishes(q) \cup {last}
      /\ \A i \in Publishes(q) : i \in Nat /\ i < last /\ r[i] = q[i]
      /\ r[last] = e
  BY <1>2, <1>3, PacketAppend DEF Publishes
<1>5. {r[i].number : i \in Publishes(r)} = {q[i].number : i \in Publishes(q)} \cup {n + 1}
  BY <1>4
<1>6. /\ Len(ch) \in Nat /\ taken + Len(ch) <= n
      /\ (taken + Len(ch) + 1)..(n + 1) = ((taken + Len(ch) + 1)..n) \cup {n + 1}
  BY <1>1
<1>7. ASSUME NEW i \in Publishes(r), NEW j \in Publishes(r), i < j
      PROVE  r[i].number < r[j].number
  <2>1. i \in Publishes(q) /\ r[i].number = q[i].number
    BY <1>4, <1>7
  <2>2. CASE j \in Publishes(q)
    BY <1>1, <1>4, <1>7, <2>1, <2>2
  <2>3. CASE j = last
    <3>1. q[i].number \in (taken + Len(ch) + 1)..n
      BY <1>1, <2>1
    <3>2. r[j].number = n + 1
      BY <1>4, <2>3
    <3> QED
      BY <1>6, <2>1, <3>1, <3>2
  <2> QED
    BY <1>4, <2>2, <2>3
<1>8. InOrder(ch, r, n + 1)
  <2>1. taken \in 0..((n + 1) - Len(ch))
    BY <1>1, <1>6
  <2>2. {r[i].number : i \in Publishes(r)} = (taken + Len(ch) + 1)..(n + 1)
    BY <1>1, <1>5, <1>6
  <2> QED
    BY <1>1, <1>7, <2>1, <2>2 DEF InOrder
<1> QED
  BY <1>2, <1>8

(* The view takes the oldest message of the channel. *)
LEMMA OrderReceive ==
  ASSUME NEW ch \in Seq(Nat), ch # <<>>, NEW q, NEW n \in Nat, InOrder(ch, q, n)
  PROVE  InOrder(Tail(ch), q, n)
<1>1. PICK taken \in 0..(n - Len(ch)) :
        /\ \A i \in DOMAIN ch : ch[i] = taken + i
        /\ {q[i].number : i \in Publishes(q)} = (taken + Len(ch) + 1)..n
        /\ \A i, j \in Publishes(q) : i < j => q[i].number < q[j].number
  BY DEF InOrder
<1>2. Len(ch) \in Nat \ {0} /\ Len(Tail(ch)) = Len(ch) - 1
  OBVIOUS
<1>3. \A i \in DOMAIN Tail(ch) : Tail(ch)[i] = (taken + 1) + i
  <2>1. ASSUME NEW i \in 1..(Len(ch) - 1) PROVE Tail(ch)[i] = (taken + 1) + i
    <3>1. Tail(ch)[i] = ch[i + 1] /\ i + 1 \in DOMAIN ch
      BY <1>2
    <3>2. ch[i + 1] = taken + (i + 1)
      BY <1>1, <3>1
    <3> QED
      BY <1>1, <3>1, <3>2
  <2> QED
    BY <1>2, <2>1
<1>4. taken + 1 \in 0..(n - Len(Tail(ch))) /\ (taken + 1) + Len(Tail(ch)) + 1 = taken + Len(ch) + 1
  BY <1>1, <1>2
<1>5. PICK c : c = Tail(ch)
  OBVIOUS
<1>6. InOrder(c, q, n)
  BY <1>1, <1>3, <1>4, <1>5 DEF InOrder
<1> QED
  BY <1>5, <1>6

-----------------------------------------------------------------------------
(* What is on its way in session s *)
WayOK(s) ==
  /\ messages[s] \in Seq(Nat) /\ published[s] \in Nat /\ IsSequence(incoming[s])
  /\ phase[s] = "deliver" => incoming[s] # <<>> /\ Head(incoming[s]).kind = "publish"
  /\ ~ Live(s) => incoming[s] = <<>> /\ published[s] = 0
  /\ Live(s) => InOrder(messages[s], incoming[s], published[s])

MessagesInv ==
  /\ DOMAIN messages = Sessions /\ DOMAIN incoming = Sessions /\ DOMAIN published = Sessions
  /\ \A s \in Sessions : WayOK(s)

(* A step that concerns no other session than s *)
Touches(s) ==
  /\ DOMAIN messages' = Sessions /\ DOMAIN incoming' = Sessions /\ DOMAIN published' = Sessions
  /\ \A u \in Sessions \ {s} : /\ messages'[u] = messages[u] /\ incoming'[u] = incoming[u]
                               /\ published'[u] = published[u] /\ phase'[u] = phase[u]

(* A step of one session leaves the messages of the others in order. *)
LEMMA OneTouched ==
  ASSUME MessagesInv, NEW s \in Sessions, Touches(s), WayOK(s)'
  PROVE  MessagesInv'
BY DEF MessagesInv, Touches, WayOK, Live

(* A step that touches nothing on the way, and leaves every loop where it stands *)
LEMMA NoneTouched ==
  ASSUME MessagesInv, UNCHANGED <<messages, incoming, published, phase>>
  PROVE  MessagesInv'
BY DEF MessagesInv, WayOK, Live

(* The loop's next position, and its end *)
LEMMA Positions ==
  ASSUME SessionInv, NEW s \in Sessions
  PROVE  /\ \A p : Goto(s, p) => phase'[s] = p /\ \A u \in Sessions \ {s} : phase'[u] = phase[u]
         /\ Again(s) => /\ phase'[s] \in {"select", "closing"}
                        /\ \A u \in Sessions \ {s} : phase'[u] = phase[u]
BY DEF Goto, Again, SessionInv

(* The end of a connection leaves what it delivered in the channel, and drops the rest. *)
LEMMA EndStep ==
  ASSUME SessionInv, MessagesInv, NEW s \in Sessions, NEW e, End(s, e), messages' = messages
  PROVE  MessagesInv'
<1>1. phase' = [phase EXCEPT ![s] = IF e THEN "failed" ELSE "ended"]
  BY DEF End
<1>2. phase'[s] \in {"failed", "ended"} /\ \A u \in Sessions \ {s} : phase'[u] = phase[u]
  BY <1>1 DEF SessionInv
<1>3. incoming' = [incoming EXCEPT ![s] = <<>>] /\ published' = [published EXCEPT ![s] = 0]
  BY DEF End
<1>4. Touches(s)
  BY <1>2, <1>3 DEF Touches, MessagesInv
<1>5. IsSequence(<<>>)
  <2>1. <<>> \in Seq(Nat)
    OBVIOUS
  <2> QED
    BY <2>1, SequenceOfSome
<1>6. WayOK(s)'
  BY <1>2, <1>3, <1>5 DEF WayOK, MessagesInv, Live
<1> QED
  BY <1>4, <1>6, OneTouched

(* The loop goes on without touching what is on the way. *)
LEMMA AgainStep ==
  ASSUME SessionInv, MessagesInv, NEW s \in Sessions, Live(s), Again(s),
         UNCHANGED <<messages, incoming, published>>
  PROVE  MessagesInv'
<1>1. Touches(s)
  BY Positions DEF Touches, MessagesInv
<1>2. WayOK(s)'
  BY Positions DEF WayOK, MessagesInv, Live
<1> QED
  BY <1>1, <1>2, OneTouched

(* A packet that is no message is dealt with, or one arrives. *)
LEMMA AckWay ==
  ASSUME SessionInv, MessagesInv, NEW s \in Sessions, HandleAck(s)
  PROVE  MessagesInv'
<1>1. /\ phase[s] = "select" /\ incoming[s] # <<>> /\ Head(incoming[s]).kind # "publish"
      /\ incoming' = [incoming EXCEPT ![s] = Tail(incoming[s])]
      /\ Again(s) /\ UNCHANGED <<messages, published>>
  BY DEF HandleAck
<1>2. Touches(s)
  BY <1>1, Positions DEF Touches, MessagesInv
<1>3. /\ incoming'[s] = Tail(incoming[s]) /\ messages'[s] = messages[s]
      /\ published'[s] = published[s] /\ phase'[s] \in {"select", "closing"}
  BY <1>1, Positions DEF MessagesInv
<1>4. /\ messages[s] \in Seq(Nat) /\ published[s] \in Nat /\ IsSequence(incoming[s])
      /\ InOrder(messages[s], incoming[s], published[s])
  BY <1>1 DEF MessagesInv, WayOK, Live
<1>5. IsSequence(Tail(incoming[s])) /\ InOrder(messages[s], Tail(incoming[s]), published[s])
  BY <1>1, <1>4, PacketTail, OrderTakeAnswer
<1>6. WayOK(s)'
  BY <1>3, <1>4, <1>5 DEF WayOK, Live
<1> QED
  BY <1>2, <1>6, OneTouched

(* The loop hands a message over when the channel has room. *)
LEMMA DeliverWay ==
  ASSUME SessionInv, MessagesInv, NEW s \in Sessions, Deliver(s)
  PROVE  MessagesInv'
<1>1. CASE End(s, FALSE) /\ messages' = messages
  BY <1>1, EndStep
<1>2. CASE /\ Again(s)
           /\ messages' = [messages EXCEPT ![s] = Append(messages[s], Head(incoming[s]).number)]
           /\ incoming' = [incoming EXCEPT ![s] = Tail(incoming[s])]
           /\ published' = published
  <2>1. /\ messages[s] \in Seq(Nat) /\ published[s] \in Nat /\ IsSequence(incoming[s])
        /\ incoming[s] # <<>> /\ Head(incoming[s]).kind = "publish"
        /\ InOrder(messages[s], incoming[s], published[s])
    BY DEF Deliver, MessagesInv, WayOK, Live
  <2>2. /\ Head(incoming[s]).number \in Nat
        /\ InOrder(Append(messages[s], Head(incoming[s]).number), Tail(incoming[s]), published[s])
    BY <2>1, OrderDeliver
  <2>3. /\ messages'[s] = Append(messages[s], Head(incoming[s]).number)
        /\ incoming'[s] = Tail(incoming[s]) /\ published'[s] = published[s]
        /\ phase'[s] \in {"select", "closing"}
    BY <1>2, Positions DEF MessagesInv
  <2>4. IsSequence(Tail(incoming[s]))
    BY <2>1, PacketTail
  <2>5. Append(messages[s], Head(incoming[s]).number) \in Seq(Nat)
    BY <2>1, <2>2
  <2>6. WayOK(s)'
    BY <2>1, <2>2, <2>3, <2>4, <2>5 DEF WayOK, Live
  <2>7. Touches(s)
    BY <1>2, Positions DEF Touches, MessagesInv
  <2> QED
    BY <2>6, <2>7, OneTouched
<1> QED
  BY <1>1, <1>2 DEF Deliver

(* Each step of a loop keeps what is on the way in order, the end of its
   connection included. *)
LEMMA LoopWay ==
  ASSUME SessionInv, MessagesInv, NEW s \in Sessions, Loop(s) \/ ConnectionLost(s)
  PROVE  MessagesInv'
<1>1. CASE Begin(s)
  <2>1. CASE End(s, TRUE)
    BY <1>1, <2>1, EndStep DEF Begin
  <2>2. CASE Again(s) /\ UNCHANGED <<messages, incoming, published>>
    BY <1>1, <2>2, AgainStep DEF Begin, Live
  <2> QED
    BY <1>1, <2>1, <2>2 DEF Begin
<1>2. CASE Close(s)
  BY <1>2, EndStep DEF Close
<1>3. CASE HandleCommand(s)
  BY <1>3, AgainStep DEF HandleCommand, Live
<1>4. CASE HandlePublish(s)
  <2>1. CASE End(s, TRUE)
    BY <1>4, <2>1, EndStep DEF HandlePublish
  <2>2. CASE Goto(s, "deliver") /\ UNCHANGED wireVars
    <3>1. phase'[s] = "deliver" /\ \A u \in Sessions \ {s} : phase'[u] = phase[u]
      BY <2>2, Positions
    <3>2. UNCHANGED <<messages, incoming, published>>
      BY <1>4, <2>2 DEF HandlePublish, wireVars
    <3>3. Live(s) /\ incoming[s] # <<>> /\ Head(incoming[s]).kind = "publish"
      BY <1>4 DEF HandlePublish, Live
    <3>4. Touches(s)
      BY <3>1, <3>2 DEF Touches, MessagesInv
    <3>5. WayOK(s)'
      BY <3>1, <3>2, <3>3 DEF WayOK, MessagesInv, Live
    <3> QED
      BY <3>4, <3>5, OneTouched
  <2> QED
    BY <1>4, <2>1, <2>2 DEF HandlePublish
<1>5. CASE Disconnect(s)
  BY <1>5, AgainStep DEF Disconnect, Live, wireVars
<1>6. CASE ConnectionLost(s)
  BY <1>6, EndStep DEF ConnectionLost
<1> QED
  BY <1>1, <1>2, <1>3, <1>4, <1>5, <1>6, AckWay, DeliverWay DEF Loop

(* The broker sends, and the view receives. *)
LEMMA BrokerWay ==
  ASSUME SessionInv, MessagesInv, NEW s \in Sessions, Answer(s) \/ Publish(s)
  PROVE  MessagesInv'
<1>1. /\ Live(s) /\ UNCHANGED <<messages, phase>>
  BY DEF Answer, Publish, Live
<1>2. /\ messages[s] \in Seq(Nat) /\ published[s] \in Nat /\ IsSequence(incoming[s])
      /\ InOrder(messages[s], incoming[s], published[s])
      /\ phase[s] = "deliver" => incoming[s] # <<>> /\ Head(incoming[s]).kind = "publish"
  BY <1>1 DEF MessagesInv, WayOK
<1>3. CASE Answer(s)
  <2>1. PICK e : e.kind # "publish" /\ incoming' = [incoming EXCEPT ![s] = Append(incoming[s], e)]
    <3>1. PICK codes :
            incoming' = [incoming EXCEPT ![s] =
                          Append(incoming[s], [kind |-> AckOf(Head(outgoing[s]).kind),
                                               of |-> Head(outgoing[s]).of, codes |-> codes])]
      BY <1>3 DEF Answer
    <3>2. PICK p : p = [kind |-> AckOf(Head(outgoing[s]).kind), of |-> Head(outgoing[s]).of,
                        codes |-> codes]
      OBVIOUS
    <3>3. p.kind = AckOf(Head(outgoing[s]).kind)
      BY <3>2
    <3>4. p.kind # "publish"
      BY <3>3 DEF AckOf
    <3> QED
      BY <3>1, <3>2, <3>4
  <2>2. phase[s] = "select" /\ published' = published
    BY <1>3 DEF Answer
  <2>3. /\ incoming'[s] = Append(incoming[s], e) /\ published'[s] = published[s]
        /\ Touches(s)
    BY <1>1, <2>1, <2>2 DEF MessagesInv, Touches
  <2>4. IsSequence(Append(incoming[s], e)) /\ InOrder(messages[s], Append(incoming[s], e), published[s])
    BY <1>2, <2>1, PacketAppend, OrderAnswer
  <2>5. WayOK(s)'
    BY <1>1, <1>2, <2>2, <2>3, <2>4 DEF WayOK, Live
  <2> QED
    BY <2>3, <2>5, OneTouched
<1>4. CASE Publish(s)
  <2>1. PICK e : /\ e.kind = "publish" /\ e.number = published[s] + 1
                 /\ incoming' = [incoming EXCEPT ![s] = Append(incoming[s], e)]
    BY <1>4 DEF Publish
  <2>2. published' = [published EXCEPT ![s] = published[s] + 1]
    BY <1>4 DEF Publish
  <2>3. /\ incoming'[s] = Append(incoming[s], e) /\ published'[s] = published[s] + 1
        /\ Touches(s)
    BY <1>1, <2>1, <2>2 DEF MessagesInv, Touches
  <2>4. IsSequence(Append(incoming[s], e)) /\ InOrder(messages[s], Append(incoming[s], e), published[s] + 1)
    BY <1>2, <2>1, PacketAppend, OrderPublish
  <2>5. phase[s] = "deliver" => /\ Append(incoming[s], e) # <<>>
                                /\ Head(Append(incoming[s], e)).kind = "publish"
    <3> SUFFICES ASSUME phase[s] = "deliver"
                 PROVE  /\ Append(incoming[s], e) # <<>>
                        /\ Head(Append(incoming[s], e)).kind = "publish"
      OBVIOUS
    <3>1. PICK q : q = Append(incoming[s], e)
      OBVIOUS
    <3>2. /\ IsSequence(q) /\ Len(q) = Len(incoming[s]) + 1 /\ Len(incoming[s]) \in Nat \ {0}
          /\ q[1] = incoming[s][1] /\ Head(incoming[s]) = incoming[s][1]
      BY <1>2, <3>1, PacketAppend, PacketTail
    <3>3. q # <<>>
      BY <3>2
    <3>4. Head(q) = q[1]
      BY <3>2, <3>3, PacketTail
    <3> QED
      BY <1>2, <3>1, <3>2, <3>3, <3>4
  <2>6. WayOK(s)'
    BY <1>1, <1>2, <2>3, <2>4, <2>5 DEF WayOK, Live
  <2> QED
    BY <2>3, <2>6, OneTouched
<1> QED
  BY <1>3, <1>4

(* The view takes the first message of the channel. *)
LEMMA ReceiveWay ==
  ASSUME SessionInv, MessagesInv, NEW s \in Sessions, ReceiveMessage(s)
  PROVE  MessagesInv'
<1>1. /\ messages[s] # <<>> /\ messages' = [messages EXCEPT ![s] = Tail(messages[s])]
      /\ UNCHANGED <<incoming, published, phase>>
  BY DEF ReceiveMessage, wireVars
<1>2. messages'[s] = Tail(messages[s]) /\ Touches(s)
  BY <1>1 DEF MessagesInv, Touches
<1>3. /\ messages[s] \in Seq(Nat) /\ published[s] \in Nat
      /\ Live(s) => InOrder(messages[s], incoming[s], published[s])
  BY DEF MessagesInv, WayOK
<1>4. Tail(messages[s]) \in Seq(Nat)
  BY <1>1, <1>3
<1>5. Live(s) => InOrder(Tail(messages[s]), incoming[s], published[s])
  BY <1>1, <1>3, OrderReceive
<1>6. WayOK(s)'
  BY <1>1, <1>2, <1>4, <1>5 DEF WayOK, MessagesInv, Live
<1> QED
  BY <1>2, <1>6, OneTouched

(* A new session starts with nothing on the way, whatever an earlier one left. *)
LEMMA StartWay ==
  ASSUME MaxSessions \in Nat, SessionInv, MessagesInv, NEW fs, StartSubscription(fs)
  PROVE  MessagesInv'
<1>1. PICK new : new = request + 1
  OBVIOUS
<1>2. /\ new \in Sessions /\ phase' = [phase EXCEPT ![new] = "starting"]
      /\ messages' = Kept(messages) /\ UNCHANGED <<incoming, published>>
      /\ \A s \in Sessions : ~ Live(s)
  BY <1>1 DEF StartSubscription, SessionInv, Known, Sessions, wireVars
<1>3. /\ DOMAIN messages' = Sessions
      /\ \A s \in Sessions : messages'[s] = <<>> /\ incoming[s] = <<>> /\ published[s] = 0
  BY <1>2 DEF Kept, MessagesInv, WayOK
<1>4. /\ phase'[new] = "starting"
      /\ \A s \in Sessions \ {new} : phase'[s] = phase[s]
  BY <1>2 DEF SessionInv
<1>5. ASSUME NEW s \in Sessions PROVE WayOK(s)'
  <2>1. /\ messages'[s] = <<>> /\ incoming'[s] = <<>> /\ published'[s] = 0
        /\ phase'[s] # "deliver"
    BY <1>2, <1>3, <1>4 DEF Live
  <2>2. IsSequence(incoming[s])
    BY DEF MessagesInv, WayOK
  <2> QED
    BY <1>2, <2>1, <2>2, OrderEmpty DEF WayOK, Live
<1> QED
  BY <1>2, <1>3, <1>5 DEF MessagesInv

(* The end of a session is noted. *)
LEMMA NotedWay ==
  ASSUME SessionInv, MessagesInv, NEW s \in Sessions, SubscriptionEnded(s)
  PROVE  MessagesInv'
<1>1. /\ ~ Live(s) /\ phase' = [phase EXCEPT ![s] = "noted"]
      /\ UNCHANGED <<messages, incoming, published>>
  BY DEF SubscriptionEnded, Live, wireVars
<1>2. phase'[s] = "noted" /\ \A u \in Sessions \ {s} : phase'[u] = phase[u]
  BY <1>1 DEF SessionInv
<1>3. Touches(s)
  BY <1>1, <1>2 DEF Touches, MessagesInv
<1>4. WayOK(s)'
  BY <1>1, <1>2 DEF WayOK, MessagesInv, Live
<1> QED
  BY <1>3, <1>4, OneTouched

(* MessagesInv is inductive, given SessionInv. *)
LEMMA MessagesStep ==
  ASSUME MaxSessions \in Nat, SessionInv, MessagesInv, [Next]_vars
  PROVE  MessagesInv'
<1>1. CASE UNCHANGED vars
  BY <1>1, NoneTouched DEF vars, wireVars
<1>2. CASE View
  <2>1. CASE \E fs \in {Topics} \cup {{f} : f \in Topics} : StartSubscription(fs)
    BY <2>1, StartWay
  <2>2. CASE \/ \E f \in Topics : Toggle(f)
             \/ Stop \/ ChooseProtocol \/ Select \/ Save \/ Saved
    <3>1. UNCHANGED <<messages, incoming, published, phase>>
      BY <2>2 DEF Toggle, Stop, ChooseProtocol, Select, Save, Saved, wireVars
    <3> QED
      BY <3>1, NoneTouched
  <2> QED
    BY <1>2, <2>1, <2>2 DEF View
<1>3. ASSUME NEW s \in Sessions, ReceiveStatus(s) PROVE MessagesInv'
  <2>1. UNCHANGED <<messages, incoming, published, phase>>
    BY <1>3 DEF ReceiveStatus, wireVars
  <2> QED
    BY <2>1, NoneTouched
<1> QED
  BY <1>1, <1>2, <1>3, LoopWay, BrokerWay, ReceiveWay, NotedWay DEF Next, Tasks

(* mqtt_data_plane.rs, deliver_subscription_message: of what the broker has sent a
   session nothing is lost and nothing overtaken before the view has it, for any
   capacities and any number of messages and sessions. *)
THEOREM MessagesInOrder == Spec => []NoMessageLost
<1> USE MqttConstants
<1>1. Init => SessionInv /\ MessagesInv
  <2> SUFFICES ASSUME Init PROVE SessionInv /\ MessagesInv
    OBVIOUS
  <2>1. SessionInv
    BY DEF Init, SessionInv, Known, Live, Phases
  <2>2. IsSequence(<<>>)
    <3>1. <<>> \in Seq(Nat)
      OBVIOUS
    <3> QED
      BY <3>1, SequenceOfSome
  <2>3. \A s \in Sessions : WayOK(s)
    BY <2>2 DEF Init, WayOK, Live
  <2> QED
    BY <2>1, <2>3 DEF Init, MessagesInv
<1>2. SessionInv /\ MessagesInv /\ [Next]_vars => (SessionInv /\ MessagesInv)'
  BY SessionStep, MessagesStep
<1>3. MessagesInv => NoMessageLost
  BY DEF MessagesInv, WayOK, NoMessageLost
<1> QED
  BY <1>1, <1>2, <1>3, PTL DEF Spec

-----------------------------------------------------------------------------
(* d names the n places of q where something of this kind is, in order. *)
Enumerates(d, n, q, kind) ==
  /\ \A i \in 1..n : d[i] \in DOMAIN q /\ q[d[i]].kind = kind
  /\ \A k \in DOMAIN q : q[k].kind = kind => \E i \in 1..n : d[i] = k
  /\ \A i, j \in 1..n : i < j => d[i] < d[j]

(* What is added is behind the others of its kind. *)
LEMMA EnumAppend ==
  ASSUME NEW q, IsSequence(q), NEW n \in Nat, NEW d, NEW kind, Enumerates(d, n, q, kind), NEW e
  PROVE  /\ e.kind # kind => Enumerates(d, n, Append(q, e), kind)
         /\ e.kind = kind => Enumerates([i \in 1..(n + 1) |-> IF i <= n THEN d[i] ELSE Len(q) + 1],
                                        n + 1, Append(q, e), kind)
<1>1. PICK r : r = Append(q, e)
  OBVIOUS
<1>2. /\ Len(q) \in Nat /\ DOMAIN q = 1..Len(q) /\ DOMAIN r = 1..(Len(q) + 1)
      /\ \A i \in 1..Len(q) : r[i] = q[i]
      /\ r[Len(q) + 1] = e
  BY <1>1, PacketAppend
<1>3. e.kind # kind => Enumerates(d, n, r, kind)
  BY <1>2 DEF Enumerates
<1>4. ASSUME e.kind = kind
      PROVE  Enumerates([i \in 1..(n + 1) |-> IF i <= n THEN d[i] ELSE Len(q) + 1], n + 1, r, kind)
  <2>1. PICK c : c = [i \in 1..(n + 1) |-> IF i <= n THEN d[i] ELSE Len(q) + 1]
    OBVIOUS
  <2>2. (\A i \in 1..n : c[i] = d[i]) /\ c[n + 1] = Len(q) + 1 /\ n + 1 \in 1..(n + 1)
    BY <2>1
  <2>3. ASSUME NEW i \in 1..(n + 1) PROVE c[i] \in DOMAIN r /\ r[c[i]].kind = kind
    BY <1>2, <1>4, <2>2 DEF Enumerates
  <2>4. ASSUME NEW k \in DOMAIN r, r[k].kind = kind PROVE \E i \in 1..(n + 1) : c[i] = k
    <3>1. CASE k = Len(q) + 1
      BY <2>2, <3>1
    <3>2. CASE k \in DOMAIN q
      <4>1. PICK i \in 1..n : d[i] = k
        BY <1>2, <2>4, <3>2 DEF Enumerates
      <4> QED
        BY <2>2, <4>1
    <3> QED
      BY <1>2, <3>1, <3>2
  <2>5. ASSUME NEW i \in 1..(n + 1), NEW j \in 1..(n + 1), i < j PROVE c[i] < c[j]
    <3>1. i \in 1..n /\ c[i] = d[i] /\ d[i] \in 1..Len(q)
      BY <1>2, <2>2, <2>5 DEF Enumerates
    <3>2. CASE j = n + 1
      BY <1>2, <2>2, <3>1, <3>2
    <3>3. CASE j \in 1..n
      <4>1. d[i] < d[j]
        BY <2>5, <3>1, <3>3 DEF Enumerates
      <4> QED
        BY <2>2, <3>1, <3>3, <4>1
    <3> QED
      BY <3>2, <3>3
  <2> QED
    BY <2>1, <2>3, <2>4, <2>5 DEF Enumerates
<1> QED
  BY <1>1, <1>3, <1>4

(* The places of the others only move up. *)
LEMMA EnumOthers ==
  ASSUME NEW q, IsSequence(q), q # <<>>, NEW n \in Nat, NEW d, NEW kind, Enumerates(d, n, q, kind),
         Head(q).kind # kind
  PROVE  Enumerates([i \in 1..n |-> d[i] - 1], n, Tail(q), kind)
<1>1. PICK r : r = Tail(q)
  OBVIOUS
<1>2. /\ Len(q) \in Nat \ {0} /\ DOMAIN q = 1..Len(q) /\ DOMAIN r = 1..(Len(q) - 1)
      /\ Head(q) = q[1]
      /\ \A i \in 1..(Len(q) - 1) : r[i] = q[i + 1]
  BY <1>1, PacketTail
<1>3. Enumerates([i \in 1..n |-> d[i] - 1], n, r, kind)
  <2>1. PICK c : c = [i \in 1..n |-> d[i] - 1]
    OBVIOUS
  <2>2. ASSUME NEW i \in 1..n PROVE d[i] \in 2..Len(q) /\ c[i] = d[i] - 1
    BY <1>2, <2>1 DEF Enumerates
  <2>3. ASSUME NEW i \in 1..n PROVE c[i] \in DOMAIN r /\ r[c[i]].kind = kind
    BY <1>2, <2>2 DEF Enumerates
  <2>4. ASSUME NEW k \in DOMAIN r, r[k].kind = kind PROVE \E i \in 1..n : c[i] = k
    <3>1. k + 1 \in DOMAIN q /\ q[k + 1].kind = kind /\ k \in Int
      BY <1>2, <2>4
    <3>2. PICK i \in 1..n : d[i] = k + 1
      BY <3>1 DEF Enumerates
    <3> QED
      BY <2>2, <3>1, <3>2
  <2>5. ASSUME NEW i \in 1..n, NEW j \in 1..n, i < j PROVE c[i] < c[j]
    <3>1. d[i] < d[j]
      BY <2>5 DEF Enumerates
    <3> QED
      BY <2>2, <3>1
  <2> QED
    BY <2>1, <2>3, <2>4, <2>5 DEF Enumerates
<1> QED
  BY <1>1, <1>3

(* The first of a kind goes first, and the others move up. *)
LEMMA EnumTail ==
  ASSUME NEW q, IsSequence(q), q # <<>>, NEW n \in Nat, NEW d, NEW kind, Enumerates(d, n, q, kind),
         Head(q).kind = kind
  PROVE  /\ n # 0 /\ d[1] = 1
         /\ Enumerates([i \in 1..(n - 1) |-> d[i + 1] - 1], n - 1, Tail(q), kind)
<1>1. PICK r : r = Tail(q)
  OBVIOUS
<1>2. /\ Len(q) \in Nat \ {0} /\ DOMAIN q = 1..Len(q) /\ DOMAIN r = 1..(Len(q) - 1)
      /\ Head(q) = q[1]
      /\ \A i \in 1..(Len(q) - 1) : r[i] = q[i + 1]
  BY <1>1, PacketTail
<1>3. n # 0 /\ d[1] = 1 /\ Enumerates([i \in 1..(n - 1) |-> d[i + 1] - 1], n - 1, r, kind)
  <2>1. PICK c : c = [i \in 1..(n - 1) |-> d[i + 1] - 1]
    OBVIOUS
  <2>2. PICK h \in 1..n : d[h] = 1
    BY <1>2 DEF Enumerates
  <2>3. n # 0 /\ 1 \in 1..n /\ d[1] \in 1..Len(q)
    BY <1>2, <2>2 DEF Enumerates
  <2>4. d[1] = 1
    <3>1. h # 1 => d[1] < d[h]
      BY <2>2, <2>3 DEF Enumerates
    <3> QED
      BY <2>2, <2>3, <3>1
  <2>5. ASSUME NEW i \in 1..(n - 1) PROVE d[i + 1] \in 2..Len(q) /\ c[i] = d[i + 1] - 1 /\ i + 1 \in 1..n
    <3>1. i + 1 \in 1..n /\ 1 < i + 1
      BY <2>5
    <3>2. d[i + 1] \in 1..Len(q) /\ d[1] < d[i + 1]
      BY <1>2, <2>3, <3>1 DEF Enumerates
    <3> QED
      BY <2>1, <2>4, <3>1, <3>2
  <2>6. ASSUME NEW i \in 1..(n - 1) PROVE c[i] \in DOMAIN r /\ r[c[i]].kind = kind
    <3>1. c[i] \in 1..(Len(q) - 1) /\ c[i] + 1 = d[i + 1] /\ i + 1 \in 1..n
      <4>1. d[i + 1] \in 2..Len(q) /\ c[i] = d[i + 1] - 1 /\ i + 1 \in 1..n
        BY <2>5
      <4> QED
        BY <1>2, <4>1
    <3>2. q[d[i + 1]].kind = kind /\ r[c[i]] = q[d[i + 1]]
      BY <1>2, <3>1 DEF Enumerates
    <3> QED
      BY <1>2, <3>1, <3>2
  <2>7. ASSUME NEW k \in DOMAIN r, r[k].kind = kind PROVE \E i \in 1..(n - 1) : c[i] = k
    <3>1. k + 1 \in DOMAIN q /\ q[k + 1].kind = kind /\ k \in 1..(Len(q) - 1)
      BY <1>2, <2>7
    <3>2. PICK i \in 1..n : d[i] = k + 1
      BY <3>1 DEF Enumerates
    <3>3. i # 1 /\ i - 1 \in 1..(n - 1) /\ (i - 1) + 1 = i
      BY <2>4, <3>1, <3>2
    <3>4. c[i - 1] = d[i] - 1
      BY <2>5, <3>3
    <3> QED
      BY <3>1, <3>2, <3>3, <3>4
  <2>8. ASSUME NEW i \in 1..(n - 1), NEW j \in 1..(n - 1), i < j PROVE c[i] < c[j]
    <3>1. d[i + 1] < d[j + 1]
      BY <2>5, <2>8 DEF Enumerates
    <3> QED
      BY <2>5, <3>1
  <2> QED
    BY <2>1, <2>3, <2>4, <2>6, <2>7, <2>8 DEF Enumerates
<1> QED
  BY <1>1, <1>3
(* What the loop waits for are, from the oldest on, the requests whose answers are on the
   way, in the order of these answers, and those the broker has not answered, in theirs. *)
Matching(m, n, d, e, asked, packets, requests, kind) ==
  /\ Enumerates(d, m, packets, AckOf(kind))
  /\ Enumerates(e, n, requests, kind)
  /\ DOMAIN asked = 1..(m + n)
  /\ \A i \in 1..m : packets[d[i]].of = asked[i]
  /\ \A i \in 1..n : requests[e[i]].of = asked[m + i]

Matched(asked, packets, requests, kind) ==
  \E m, n \in Nat : \E d, e : Matching(m, n, d, e, asked, packets, requests, kind)

(* As many *)
LEMMA SameEnd ==
  ASSUME NEW m \in Nat, NEW n \in Nat, 1..m = 1..n
  PROVE  m = n
<1>1. m # 0 => m \in 1..n
  OBVIOUS
<1>2. n # 0 => n \in 1..m
  OBVIOUS
<1> QED
  BY <1>1, <1>2

(* Nothing is waited for where nothing was asked. *)
LEMMA MatchedNothing ==
  ASSUME NEW asked, DOMAIN asked = {}, NEW kind
  PROVE  Matched(asked, <<>>, <<>>, kind)
<1> DEFINE d == <<>>
<1>1. Enumerates(d, 0, <<>>, kind) /\ Enumerates(d, 0, <<>>, AckOf(kind))
  BY DEF Enumerates
<1>2. DOMAIN asked = 1..(0 + 0) /\ 0 \in Nat
  OBVIOUS
<1>3. 1..0 = {}
  OBVIOUS
<1> HIDE DEF d
<1> QED
  <2>1. Matching(0, 0, d, d, asked, <<>>, <<>>, kind)
    BY <1>1, <1>2, <1>3 DEF Matching
  <2> QED
    BY <1>2, <2>1 DEF Matched

(* Another packet that answers no request of this kind *)
LEMMA MatchedPacket ==
  ASSUME NEW asked, NEW packets, NEW requests, NEW kind, NEW p,
         Matched(asked, packets, requests, kind), IsSequence(packets), p.kind # AckOf(kind)
  PROVE  Matched(asked, Append(packets, p), requests, kind)
<1>0. PICK m \in Nat, n \in Nat :
        \E d, e : Matching(m, n, d, e, asked, packets, requests, kind)
  BY DEF Matched
<1>1. PICK d, e : Matching(m, n, d, e, asked, packets, requests, kind)
  BY <1>0
<1>2. PICK q : q = Append(packets, p)
  OBVIOUS
<1>3. Enumerates(d, m, q, AckOf(kind))
  BY <1>1, <1>2, EnumAppend DEF Matching
<1>4. ASSUME NEW i \in 1..m PROVE q[d[i]].of = asked[i]
  <2>1. d[i] \in DOMAIN packets /\ packets[d[i]].of = asked[i]
    BY <1>1 DEF Enumerates, Matching
  <2> QED
    BY <1>2, <2>1, PacketAppend
<1> QED
  <2>1. Matching(m, n, d, e, asked, q, requests, kind)
    BY <1>1, <1>3, <1>4 DEF Matching
  <2>2. Matched(asked, q, requests, kind)
    BY <1>0, <2>1 DEF Matched
  <2> QED
    BY <1>2, <2>2

(* A request of another kind that the client takes *)
LEMMA MatchedOther ==
  ASSUME NEW asked, NEW packets, NEW requests, NEW kind, NEW r,
         Matched(asked, packets, requests, kind), IsSequence(requests), r.kind # kind
  PROVE  Matched(asked, packets, Append(requests, r), kind)
<1>0. PICK m \in Nat, n \in Nat :
        \E d, e : Matching(m, n, d, e, asked, packets, requests, kind)
  BY DEF Matched
<1>1. PICK d, e : Matching(m, n, d, e, asked, packets, requests, kind)
  BY <1>0
<1>2. PICK q : q = Append(requests, r)
  OBVIOUS
<1>3. Enumerates(e, n, q, kind)
  BY <1>1, <1>2, EnumAppend DEF Matching
<1>4. ASSUME NEW i \in 1..n PROVE q[e[i]].of = asked[m + i]
  <2>1. e[i] \in DOMAIN requests /\ requests[e[i]].of = asked[m + i]
    BY <1>1 DEF Enumerates, Matching
  <2> QED
    BY <1>2, <2>1, PacketAppend
<1> QED
  <2>1. Matching(m, n, d, e, asked, packets, q, kind)
    BY <1>1, <1>3, <1>4 DEF Matching
  <2>2. Matched(asked, packets, q, kind)
    BY <1>0, <2>1 DEF Matched
  <2> QED
    BY <1>2, <2>2

(* A request of this kind is waited for behind the others of its kind. *)
LEMMA MatchedMore ==
  ASSUME NEW asked, NEW packets, NEW requests, NEW kind, NEW r,
         Matched(asked, packets, requests, kind), IsSequence(requests),
         NEW more, NEW k \in Nat, r.kind = kind, DOMAIN asked = 1..k, DOMAIN more = 1..(k + 1),
         \A i \in 1..k : more[i] = asked[i], more[k + 1] = r.of
  PROVE  Matched(more, packets, Append(requests, r), kind)
<1>0. PICK m \in Nat, n \in Nat :
        \E d, e : Matching(m, n, d, e, asked, packets, requests, kind)
  BY DEF Matched
<1>1. PICK d, e : Matching(m, n, d, e, asked, packets, requests, kind)
  BY <1>0
<1>2. PICK q : q = Append(requests, r)
  OBVIOUS
<1>3. /\ Len(requests) \in Nat /\ DOMAIN requests = 1..Len(requests)
      /\ \A i \in DOMAIN requests : q[i] = requests[i]
      /\ q[Len(requests) + 1] = r
  BY <1>2, PacketAppend
<1>4. k = m + n
  BY <1>1, SameEnd DEF Matching
<1>5. PICK c : c = [i \in 1..(n + 1) |-> IF i <= n THEN e[i] ELSE Len(requests) + 1]
  OBVIOUS
<1>6. Enumerates(c, n + 1, q, kind)
  BY <1>1, <1>2, <1>5, EnumAppend DEF Matching
<1>7. DOMAIN more = 1..(m + (n + 1)) /\ n + 1 \in Nat
  BY <1>4
<1>8. ASSUME NEW i \in 1..m PROVE packets[d[i]].of = more[i]
  <2>1. i \in 1..k
    BY <1>4
  <2> QED
    BY <1>1, <2>1 DEF Matching
<1>9. ASSUME NEW i \in 1..(n + 1) PROVE q[c[i]].of = more[m + i]
  <2>1. CASE i = n + 1
    <3>1. c[i] = Len(requests) + 1 /\ m + i = k + 1
      BY <1>4, <1>5, <2>1
    <3> QED
      BY <1>3, <3>1
  <2>2. CASE i \in 1..n
    <3>1. c[i] = e[i] /\ m + i \in 1..k
      BY <1>4, <1>5, <2>2
    <3>2. e[i] \in DOMAIN requests
      BY <1>1, <2>2 DEF Enumerates, Matching
    <3> QED
      BY <1>1, <1>3, <2>2, <3>1, <3>2 DEF Matching
  <2> QED
    BY <2>1, <2>2
<1> QED
  <2>1. Matching(m, n + 1, d, c, more, packets, q, kind)
    BY <1>1, <1>6, <1>7, <1>8, <1>9 DEF Matching
  <2>2. Matched(more, packets, q, kind)
    BY <1>0, <1>7, <2>1 DEF Matched
  <2> QED
    BY <1>2, <2>2

(* The broker answers the oldest request: the answer is behind those on the way, and the
   one who waits for it is the first who waited for a request. *)
LEMMA MatchedAnswer ==
  ASSUME NEW asked, NEW packets, NEW requests, NEW kind \in {"sub", "unsub"}, NEW p,
         Matched(asked, packets, requests, kind),
         IsSequence(packets), IsSequence(requests), requests # <<>>,
         NEW r, r = Head(requests), r.kind \in {"sub", "unsub"},
         p.kind = AckOf(r.kind), p.of = r.of
  PROVE  Matched(asked, Append(packets, p), Tail(requests), kind)
<1>0. PICK m \in Nat, n \in Nat :
        \E d, e : Matching(m, n, d, e, asked, packets, requests, kind)
  BY DEF Matched
<1>1. PICK d, e : Matching(m, n, d, e, asked, packets, requests, kind)
  BY <1>0
<1>2. PICK q, t : q = Append(packets, p) /\ t = Tail(requests)
  OBVIOUS
<1>3. /\ Len(packets) \in Nat /\ DOMAIN packets = 1..Len(packets)
      /\ \A i \in DOMAIN packets : q[i] = packets[i]
      /\ q[Len(packets) + 1] = p
  BY <1>2, PacketAppend
<1>4. /\ Len(requests) \in Nat \ {0} /\ DOMAIN requests = 1..Len(requests)
      /\ r = requests[1]
      /\ \A i \in 1..(Len(requests) - 1) : t[i] = requests[i + 1]
  BY <1>2, PacketTail
<1>5. \A i \in 1..n : e[i] \in 1..Len(requests)
  BY <1>1, <1>4 DEF Enumerates, Matching
<1>6. ASSUME NEW i \in 1..m PROVE d[i] \in DOMAIN packets /\ q[d[i]].of = asked[i]
  <2>1. d[i] \in DOMAIN packets /\ packets[d[i]].of = asked[i]
    BY <1>1 DEF Enumerates, Matching
  <2> QED
    BY <1>3, <2>1
<1>7. CASE r.kind # kind
  <2>1. p.kind # AckOf(kind)
    BY <1>7 DEF AckOf
  <2>2. Enumerates(d, m, q, AckOf(kind))
    BY <1>1, <1>2, <2>1, EnumAppend DEF Matching
  <2>3. PICK c : c = [i \in 1..n |-> e[i] - 1]
    OBVIOUS
  <2>4. Enumerates(c, n, t, kind)
    <3>1. Enumerates(e, n, requests, kind)
      BY <1>1 DEF Matching
    <3>2. Enumerates([i \in 1..n |-> e[i] - 1], n, Tail(requests), kind)
      BY <1>0, <1>7, <3>1, EnumOthers
    <3> QED
      BY <1>2, <2>3, <3>2
  <2>5. ASSUME NEW i \in 1..n PROVE t[c[i]].of = asked[m + i]
    <3>1. requests[e[i]].of = asked[m + i] /\ requests[e[i]].kind = kind /\ e[i] # 1
      BY <1>1, <1>4, <1>7 DEF Enumerates, Matching
    <3>2. c[i] = e[i] - 1 /\ c[i] \in 1..(Len(requests) - 1) /\ c[i] + 1 = e[i]
      BY <1>4, <1>5, <2>3, <3>1
    <3> QED
      BY <1>4, <3>1, <3>2
  <2>6. Matching(m, n, d, c, asked, q, t, kind)
    BY <1>1, <1>6, <2>2, <2>4, <2>5 DEF Matching
  <2>7. Matched(asked, q, t, kind)
    BY <1>0, <2>6 DEF Matched
  <2> QED
    BY <1>2, <2>7
<1>8. CASE r.kind = kind
  <2>1. p.kind = AckOf(kind)
    BY <1>8
  <2>2. PICK b : b = [i \in 1..(m + 1) |-> IF i <= m THEN d[i] ELSE Len(packets) + 1]
    OBVIOUS
  <2>3. PICK c : c = [i \in 1..(n - 1) |-> e[i + 1] - 1]
    OBVIOUS
  <2>4. Enumerates(b, m + 1, q, AckOf(kind))
    BY <1>1, <1>2, <2>1, <2>2, EnumAppend DEF Matching
  <2>5. n # 0 /\ e[1] = 1 /\ Enumerates(c, n - 1, t, kind)
    <3>1. Enumerates(e, n, requests, kind)
      BY <1>1 DEF Matching
    <3>2. /\ n # 0 /\ e[1] = 1
          /\ Enumerates([i \in 1..(n - 1) |-> e[i + 1] - 1], n - 1, Tail(requests), kind)
      BY <1>0, <1>8, <3>1, EnumTail
    <3> QED
      BY <1>2, <2>3, <3>2
  <2>6. m + 1 \in Nat /\ n - 1 \in Nat /\ (m + 1) + (n - 1) = m + n
    BY <2>5
  <2>7. asked[m + 1] = r.of
    <3>1. 1 \in 1..n
      BY <2>5
    <3>2. requests[e[1]].of = asked[m + 1]
      BY <1>1, <3>1 DEF Matching
    <3> QED
      BY <1>4, <2>5, <3>2
  <2>8. ASSUME NEW i \in 1..(m + 1) PROVE q[b[i]].of = asked[i]
    <3>1. CASE i = m + 1
      <4>1. b[i] = Len(packets) + 1
        BY <2>2, <3>1
      <4> QED
        BY <1>3, <2>7, <3>1, <4>1
    <3>2. CASE i \in 1..m
      <4>1. b[i] = d[i]
        BY <2>2, <3>2
      <4> QED
        BY <1>6, <3>2, <4>1
    <3> QED
      BY <3>1, <3>2
  <2>9. ASSUME NEW i \in 1..(n - 1) PROVE t[c[i]].of = asked[(m + 1) + i]
    <3>1. i + 1 \in 1..n /\ 1 \in 1..n /\ 1 < i + 1 /\ m + (i + 1) = (m + 1) + i
      BY <2>5
    <3>2. requests[e[i + 1]].of = asked[(m + 1) + i] /\ e[1] < e[i + 1] /\ e[i + 1] \in 1..Len(requests)
      BY <1>1, <1>5, <3>1 DEF Enumerates, Matching
    <3>3. c[i] = e[i + 1] - 1 /\ e[i + 1] \in 2..Len(requests)
      BY <1>4, <2>3, <2>5, <3>2
    <3>4. c[i] \in 1..(Len(requests) - 1) /\ c[i] + 1 = e[i + 1]
      BY <1>4, <3>3
    <3> QED
      BY <1>4, <3>2, <3>4
  <2>10. DOMAIN asked = 1..((m + 1) + (n - 1))
    BY <1>1, <2>6 DEF Matching
  <2>11. Matching(m + 1, n - 1, b, c, asked, q, t, kind)
    BY <2>4, <2>5, <2>8, <2>9, <2>10 DEF Matching
  <2>12. Matched(asked, q, t, kind)
    BY <2>6, <2>11 DEF Matched
  <2> QED
    BY <1>2, <2>12
<1> QED
  BY <1>7, <1>8

(* The loop takes a packet off that answers no request of this kind. *)
LEMMA MatchedPast ==
  ASSUME NEW asked, NEW packets, NEW requests, NEW kind,
         Matched(asked, packets, requests, kind), IsSequence(packets), packets # <<>>,
         Head(packets).kind # AckOf(kind)
  PROVE  Matched(asked, Tail(packets), requests, kind)
<1>0. PICK m \in Nat, n \in Nat :
        \E d, e : Matching(m, n, d, e, asked, packets, requests, kind)
  BY DEF Matched
<1>1. PICK d, e : Matching(m, n, d, e, asked, packets, requests, kind)
  BY <1>0
<1>2. PICK t : t = Tail(packets)
  OBVIOUS
<1>3. /\ Len(packets) \in Nat \ {0} /\ DOMAIN packets = 1..Len(packets)
      /\ Head(packets) = packets[1]
      /\ \A i \in 1..(Len(packets) - 1) : t[i] = packets[i + 1]
  BY <1>2, PacketTail
<1>4. PICK c : c = [i \in 1..m |-> d[i] - 1]
  OBVIOUS
<1>5. Enumerates(c, m, t, AckOf(kind))
  <2>1. Enumerates(d, m, packets, AckOf(kind))
    BY <1>1 DEF Matching
  <2>2. Enumerates([i \in 1..m |-> d[i] - 1], m, Tail(packets), AckOf(kind))
    BY <1>0, <2>1, EnumOthers
  <2> QED
    BY <1>2, <1>4, <2>2
<1>6. ASSUME NEW i \in 1..m PROVE t[c[i]].of = asked[i]
  <2>1. d[i] \in 1..Len(packets) /\ packets[d[i]].kind = AckOf(kind) /\ packets[d[i]].of = asked[i]
    BY <1>1, <1>3 DEF Enumerates, Matching
  <2>2. d[i] # 1
    BY <1>3, <2>1
  <2>3. c[i] \in 1..(Len(packets) - 1) /\ c[i] + 1 = d[i]
    BY <1>3, <1>4, <2>1, <2>2
  <2> QED
    BY <1>3, <2>1, <2>3
<1> QED
  <2>1. Matching(m, n, c, e, asked, t, requests, kind)
    BY <1>1, <1>5, <1>6 DEF Matching
  <2>2. Matched(asked, t, requests, kind)
    BY <1>0, <2>1 DEF Matched
  <2> QED
    BY <1>2, <2>2

(* Where an answer of this kind comes first, one is waited for. *)
LEMMA MatchedFirst ==
  ASSUME NEW asked, NEW packets, NEW requests, NEW kind,
         Matched(asked, packets, requests, kind), IsSequence(packets), packets # <<>>,
         Head(packets).kind = AckOf(kind)
  PROVE  1 \in DOMAIN asked /\ asked[1] = Head(packets).of
<1>0. PICK m \in Nat, n \in Nat :
        \E d, e : Matching(m, n, d, e, asked, packets, requests, kind)
  BY DEF Matched
<1>1. PICK d, e : Matching(m, n, d, e, asked, packets, requests, kind)
  BY <1>0
<1>2. Enumerates(d, m, packets, AckOf(kind))
  BY <1>1 DEF Matching
<1>3. m # 0 /\ d[1] = 1
  BY <1>2, EnumTail
<1>4. 1 \in 1..m /\ 1 \in DOMAIN asked
  BY <1>1, <1>3 DEF Matching
<1>5. packets[d[1]].of = asked[1]
  BY <1>1, <1>4 DEF Matching
<1> QED
  BY <1>3, <1>4, <1>5, PacketTail

(* It takes off an answer of this kind, which is for the request it has waited for longest. *)
LEMMA MatchedRest ==
  ASSUME NEW asked, NEW packets, NEW requests, NEW kind,
         Matched(asked, packets, requests, kind), IsSequence(packets), packets # <<>>,
         Head(packets).kind = AckOf(kind),
         NEW rest, NEW k \in Nat, DOMAIN asked = 1..(k + 1), DOMAIN rest = 1..k,
         \A i \in 1..k : rest[i] = asked[i + 1]
  PROVE  Matched(rest, Tail(packets), requests, kind)
<1>0. PICK m \in Nat, n \in Nat :
        \E d, e : Matching(m, n, d, e, asked, packets, requests, kind)
  BY DEF Matched
<1>1. PICK d, e : Matching(m, n, d, e, asked, packets, requests, kind)
  BY <1>0
<1>2. PICK t : t = Tail(packets)
  OBVIOUS
<1>3. /\ Len(packets) \in Nat \ {0} /\ DOMAIN packets = 1..Len(packets)
      /\ Head(packets) = packets[1]
      /\ \A i \in 1..(Len(packets) - 1) : t[i] = packets[i + 1]
  BY <1>2, PacketTail
<1>4. \A i \in 1..m : d[i] \in 1..Len(packets) /\ packets[d[i]].kind = AckOf(kind)
  BY <1>1, <1>3 DEF Enumerates, Matching
<1>5. PICK c : c = [i \in 1..(m - 1) |-> d[i + 1] - 1]
  OBVIOUS
<1>6. m # 0 /\ d[1] = 1 /\ Enumerates(c, m - 1, t, AckOf(kind))
  <2>1. Enumerates(d, m, packets, AckOf(kind))
    BY <1>1 DEF Matching
  <2> QED
    BY <1>2, <1>5, <2>1, EnumTail
<1>7. 1 \in 1..m
  BY <1>6
<1>8. k + 1 = m + n
  BY <1>1, SameEnd DEF Matching
<1>9. m - 1 \in Nat /\ DOMAIN rest = 1..((m - 1) + n)
  BY <1>6, <1>8
<1>10. ASSUME NEW i \in 1..(m - 1) PROVE t[c[i]].of = rest[i]
  <2>1. i + 1 \in 1..m /\ 1 < i + 1 /\ i \in 1..k
    BY <1>8
  <2>2. d[1] < d[i + 1] /\ d[i + 1] \in 1..Len(packets)
    BY <1>1, <1>4, <1>7, <2>1 DEF Enumerates, Matching
  <2>3. c[i] = d[i + 1] - 1 /\ d[i + 1] \in 2..Len(packets)
    BY <1>3, <1>5, <1>6, <2>2
  <2>4. c[i] \in 1..(Len(packets) - 1) /\ c[i] + 1 = d[i + 1]
    BY <1>3, <2>3
  <2>5. packets[d[i + 1]].of = asked[i + 1]
    BY <1>1, <2>1 DEF Matching
  <2> QED
    BY <1>3, <2>1, <2>4, <2>5
<1>11. ASSUME NEW i \in 1..n PROVE requests[e[i]].of = rest[(m - 1) + i]
  <2>1. (m - 1) + i \in 1..k /\ ((m - 1) + i) + 1 = m + i
    BY <1>6, <1>8
  <2> QED
    BY <1>1, <2>1 DEF Matching
<1> QED
  <2>1. Matching(m - 1, n, c, e, rest, t, requests, kind)
    BY <1>1, <1>6, <1>9, <1>10, <1>11 DEF Matching
  <2>2. Matched(rest, t, requests, kind)
    BY <1>0, <1>9, <2>1 DEF Matched
  <2> QED
    BY <1>2, <1>7, <2>2

(* The packets on the way are the broker's, the requests are the client's. *)
PacketKinds == {"suback", "unsuback", "publish"}

(* The two, one behind the other *)
LEMMA Together ==
  ASSUME NEW p, IsSequence(p), NEW q, IsSequence(q)
  PROVE  /\ Len(p) \in Nat /\ Len(q) \in Nat /\ DOMAIN p = 1..Len(p) /\ DOMAIN q = 1..Len(q)
         /\ DOMAIN (p \o q) = 1..(Len(p) + Len(q))
         /\ \A i \in 1..Len(p) : (p \o q)[i] = p[i]
         /\ \A i \in 1..Len(q) : (p \o q)[Len(p) + i] = q[i]
<1> DEFINE S == {p[i] : i \in 1..Len(p)} \cup {q[i] : i \in 1..Len(q)}
<1>1. p \in Seq({p[i] : i \in 1..Len(p)}) /\ q \in Seq({q[i] : i \in 1..Len(q)})
  BY DEF IsSequence
<1>2. p \in Seq(S) /\ q \in Seq(S)
  BY <1>1
<1> HIDE DEF S
<1>3. /\ Len(p) \in Nat /\ Len(q) \in Nat /\ DOMAIN p = 1..Len(p) /\ DOMAIN q = 1..Len(q)
      /\ p \o q \in Seq(S) /\ Len(p \o q) = Len(p) + Len(q)
  BY <1>2
<1>4. ASSUME NEW i \in 1..Len(p) PROVE (p \o q)[i] = p[i]
  BY <1>2, <1>3
<1>5. ASSUME NEW i \in 1..Len(q) PROVE (p \o q)[Len(p) + i] = q[i]
  BY <1>2, <1>3
<1> QED
  BY <1>3, <1>4, <1>5

(* Matched, the requests asked are in turn: answers first, then the requests that wait. *)
LEMMA MatchedInTurn ==
  ASSUME NEW asked, NEW packets, NEW requests, NEW kind \in {"sub", "unsub"},
         Matched(asked, packets, requests, kind), IsSequence(packets), IsSequence(requests),
         \A i \in DOMAIN packets : packets[i].kind \in PacketKinds,
         \A i \in DOMAIN requests : requests[i].kind \in {"sub", "unsub"}
  PROVE  InTurn(asked, packets \o requests, kind)
<1>0. PICK m \in Nat, n \in Nat :
        \E d, e : Matching(m, n, d, e, asked, packets, requests, kind)
  BY DEF Matched
<1>1. PICK d, e : Matching(m, n, d, e, asked, packets, requests, kind)
  BY <1>0
<1>2. PICK way : way = packets \o requests
  OBVIOUS
<1>3. PICK len, more \in Nat : len = Len(packets) /\ more = Len(requests)
  BY Together
<1>4. /\ DOMAIN packets = 1..len /\ DOMAIN requests = 1..more /\ DOMAIN way = 1..(len + more)
      /\ \A i \in 1..len : way[i] = packets[i]
      /\ \A i \in 1..more : way[len + i] = requests[i]
  BY <1>2, <1>3, Together
<1>5. PICK at : at = [i \in 1..(m + n) |-> IF i <= m THEN d[i] ELSE len + e[i - m]]
  OBVIOUS
<1>6. ASSUME NEW i \in 1..(m + n), i <= m
      PROVE  /\ at[i] \in 1..len /\ at[i] = d[i] /\ i \in 1..m
             /\ way[at[i]].kind = AckOf(kind) /\ way[at[i]].of = asked[i]
  <2>1. i \in 1..m /\ at[i] = d[i]
    BY <1>5, <1>6
  <2>2. d[i] \in 1..len /\ packets[d[i]].kind = AckOf(kind) /\ packets[d[i]].of = asked[i]
    BY <1>1, <1>4, <2>1 DEF Enumerates, Matching
  <2> QED
    BY <1>4, <2>1, <2>2
<1>7. ASSUME NEW i \in 1..(m + n), ~ (i <= m)
      PROVE  /\ at[i] = len + e[i - m] /\ e[i - m] \in 1..more /\ i - m \in 1..n
             /\ way[at[i]].kind = kind /\ way[at[i]].of = asked[i]
  <2>1. i - m \in 1..n /\ at[i] = len + e[i - m] /\ m + (i - m) = i
    BY <1>5, <1>7
  <2>2. /\ e[i - m] \in 1..more /\ requests[e[i - m]].kind = kind
        /\ requests[e[i - m]].of = asked[i]
    BY <1>1, <1>4, <2>1 DEF Enumerates, Matching
  <2> QED
    BY <1>4, <2>1, <2>2
<1>8. /\ DOMAIN asked = 1..(m + n)
      /\ at \in [DOMAIN asked -> {k \in DOMAIN way : way[k].kind \in {kind, AckOf(kind)}}]
  <2>1. DOMAIN asked = 1..(m + n)
    BY <1>1 DEF Matching
  <2>2. ASSUME NEW i \in 1..(m + n)
        PROVE  at[i] \in 1..(len + more) /\ way[at[i]].kind \in {kind, AckOf(kind)}
    <3>1. CASE i <= m
      BY <1>3, <1>6, <3>1
    <3>2. CASE ~ (i <= m)
      BY <1>3, <1>7, <3>2
    <3> QED
      BY <3>1, <3>2
  <2> QED
    BY <1>4, <1>5, <2>1, <2>2
<1>9. ASSUME NEW i \in 1..(m + n), NEW j \in 1..(m + n), i < j PROVE at[i] < at[j]
  <2>1. CASE j <= m
    <3>1. i <= m
      BY <1>9, <2>1
    <3>2. d[i] < d[j]
      BY <1>1, <1>6, <1>9, <2>1, <3>1 DEF Enumerates, Matching
    <3> QED
      BY <1>6, <2>1, <3>1, <3>2
  <2>2. CASE i <= m /\ ~ (j <= m)
    <3>1. at[i] \in 1..len /\ at[j] = len + e[j - m] /\ e[j - m] \in 1..more
      BY <1>6, <1>7, <2>2
    <3> QED
      BY <1>3, <3>1
  <2>3. CASE ~ (i <= m) /\ ~ (j <= m)
    <3>1. i - m \in 1..n /\ j - m \in 1..n /\ i - m < j - m
      BY <1>7, <1>9, <2>3
    <3>2. e[i - m] < e[j - m]
      BY <1>1, <3>1 DEF Enumerates, Matching
    <3>3. /\ at[i] = len + e[i - m] /\ e[i - m] \in 1..more
          /\ at[j] = len + e[j - m] /\ e[j - m] \in 1..more
      BY <1>7, <2>3
    <3> QED
      BY <1>3, <3>2, <3>3
  <2> QED
    BY <1>9, <2>1, <2>2, <2>3
<1>10. \A i \in DOMAIN asked : way[at[i]].of = asked[i]
  BY <1>6, <1>7, <1>8
<1>11. ASSUME NEW k \in DOMAIN way, way[k].kind \in {kind, AckOf(kind)}
       PROVE  \E i \in 1..(m + n) : at[i] = k
  <2>1. CASE k \in 1..len
    <3>1. packets[k].kind = AckOf(kind)
      BY <1>4, <1>11, <2>1 DEF PacketKinds, AckOf
    <3>2. PICK i \in 1..m : d[i] = k
      BY <1>1, <1>4, <2>1, <3>1 DEF Enumerates, Matching
    <3>3. i \in 1..(m + n) /\ i <= m
      OBVIOUS
    <3> QED
      BY <1>6, <3>2, <3>3
  <2>2. CASE k \notin 1..len
    <3>1. PICK j \in 1..more : k = len + j
      <4>1. k - len \in 1..more /\ k = len + (k - len)
        BY <1>3, <1>4, <2>2
      <4> QED
        BY <4>1
    <3>2. requests[j].kind = kind
      BY <1>4, <1>11, <3>1 DEF AckOf
    <3>3. PICK i \in 1..n : e[i] = j
      BY <1>1, <1>4, <3>2 DEF Enumerates, Matching
    <3>4. m + i \in 1..(m + n) /\ ~ (m + i <= m) /\ (m + i) - m = i
      OBVIOUS
    <3>5. at[m + i] = len + e[i]
      BY <1>7, <3>4
    <3> QED
      BY <3>1, <3>3, <3>4, <3>5
  <2> QED
    BY <2>1, <2>2
<1>12. InTurn(asked, way, kind)
  BY <1>8, <1>9, <1>10, <1>11 DEF InTurn
<1> QED
  BY <1>2, <1>12

-----------------------------------------------------------------------------
Commands == [kind : {"sub", "unsub"}, of : Topics]
Requests == [kind : {"sub", "unsub"}, of : SUBSET Topics]

(* What a session has asked, and what is on the way for it.  Before it has begun it has
   asked nothing. *)
AcksOK(s) ==
  /\ commands[s] \in Seq(Commands)
  /\ initial[s] \subseteq Topics
  /\ \E subs \in Seq(SUBSET Topics), unsubs \in Seq(Topics) :
       /\ awaited[s] = [sub |-> subs, unsub |-> unsubs]
       /\ Matched(subs, incoming[s], outgoing[s], "sub")
       /\ Matched(Withdrawn(unsubs), incoming[s], outgoing[s], "unsub")
       /\ phase[s] \in {"none", "starting"} => subs = <<>>
  /\ outgoing[s] \in Seq(Requests)
  /\ IsSequence(incoming[s])
  /\ \A i \in DOMAIN incoming[s] : incoming[s][i].kind \in PacketKinds
  /\ phase[s] \in {"none", "starting"} => outgoing[s] = <<>>

Domains ==
  /\ DOMAIN initial = Sessions /\ DOMAIN commands = Sessions /\ DOMAIN awaited = Sessions
  /\ DOMAIN outgoing = Sessions /\ DOMAIN incoming = Sessions

AcksInv == Domains /\ \A s \in Sessions : AcksOK(s)

(* The session moves on, or rests as it is: it does not go back to where it has not begun. *)
Onward(s) == phase'[s] \in {"none", "starting"} => phase[s] \in {"none", "starting"}

(* A session of which nothing changes but where its loop stands *)
Rests(s) ==
  /\ Onward(s)
  /\ UNCHANGED <<initial[s], commands[s], awaited[s], outgoing[s], incoming[s]>>

(* It keeps what it has asked in turn. *)
LEMMA AcksRest ==
  ASSUME NEW s \in Sessions, AcksOK(s), Rests(s)
  PROVE  AcksOK(s)'
BY DEF AcksOK, Rests, Onward

(* A step that changes one session *)
LEMMA AcksOne ==
  ASSUME AcksInv, Domains', NEW s \in Sessions, AcksOK(s)', \A u \in Sessions \ {s} : Rests(u)
  PROVE  AcksInv'
<1>1. \A u \in Sessions \ {s} : AcksOK(u)'
  BY AcksRest DEF AcksInv
<1> QED
  BY <1>1 DEF AcksInv

(* A step that leaves every session as it is *)
LEMMA AcksNone ==
  ASSUME AcksInv, UNCHANGED <<commands, awaited, outgoing, incoming>>, DOMAIN initial' = Sessions,
         \A s \in Sessions : Onward(s) /\ initial'[s] \subseteq Topics
  PROVE  AcksInv'
BY DEF AcksInv, Domains, AcksOK, Onward

(* Sequences with typed elements *)
LEMMA TypedSequence ==
  ASSUME NEW S, NEW q \in Seq(S)
  PROVE  /\ IsSequence(q)
         /\ \A x \in S : Append(q, x) \in Seq(S)
         /\ q # <<>> => /\ Head(q) \in S /\ Tail(q) \in Seq(S)
                        /\ Len(q) - 1 \in Nat /\ (Len(q) - 1) + 1 = Len(q)
<1>1. IsSequence(q)
  BY SequenceOfSome
<1> QED
  BY <1>1

(* Other SUBSCRIBEs are waited for. *)
LEMMA SubsChange ==
  ASSUME NEW a, NEW s, s \in DOMAIN a, NEW subs, NEW unsubs,
         a[s] = [sub |-> subs, unsub |-> unsubs], NEW new
  PROVE  [a EXCEPT ![s].sub = new][s] = [sub |-> new, unsub |-> unsubs]
<1>1. PICK q : q = [sub |-> subs, unsub |-> unsubs]
  OBVIOUS
<1>2. [q EXCEPT !.sub = new] = [sub |-> new, unsub |-> unsubs]
  BY <1>1
<1>3. [a EXCEPT ![s].sub = new][s] = [a[s] EXCEPT !.sub = new]
  BY Zenon
<1>4. a[s] = q
  BY <1>1
<1> QED
  BY <1>2, <1>3, <1>4, Zenon

(* Other UNSUBSCRIBEs are waited for. *)
LEMMA UnsubsChange ==
  ASSUME NEW a, NEW s, s \in DOMAIN a, NEW subs, NEW unsubs,
         a[s] = [sub |-> subs, unsub |-> unsubs], NEW new
  PROVE  [a EXCEPT ![s].unsub = new][s] = [sub |-> subs, unsub |-> new]
<1>1. PICK q : q = [sub |-> subs, unsub |-> unsubs]
  OBVIOUS
<1>2. [q EXCEPT !.unsub = new] = [sub |-> subs, unsub |-> new]
  BY <1>1
<1>3. [a EXCEPT ![s].unsub = new][s] = [a[s] EXCEPT !.unsub = new]
  BY Zenon
<1>4. a[s] = q
  BY <1>1
<1> QED
  BY <1>2, <1>3, <1>4, Zenon

(* Waiting for something else concerns no other session. *)
LEMMA OthersWait ==
  ASSUME NEW a, NEW s, NEW new
  PROVE  /\ DOMAIN [a EXCEPT ![s].sub = new] = DOMAIN a
         /\ DOMAIN [a EXCEPT ![s].unsub = new] = DOMAIN a
         /\ \A u \in DOMAIN a : u # s => /\ [a EXCEPT ![s].sub = new][u] = a[u]
                                         /\ [a EXCEPT ![s].unsub = new][u] = a[u]
BY Zenon

(* Nothing at all *)
LEMMA NothingAsked ==
  /\ <<>> \in Seq(Commands) /\ <<>> \in Seq(SUBSET Topics) /\ <<>> \in Seq(Topics)
  /\ <<>> \in Seq(Requests) /\ IsSequence(<<>>)
  /\ Matched(<<>>, <<>>, <<>>, "sub") /\ Matched(Withdrawn(<<>>), <<>>, <<>>, "unsub")
  /\ \A i \in DOMAIN <<>> : <<>>[i].kind \in PacketKinds
<1>1. <<>> \in Seq(Commands) /\ <<>> \in Seq(SUBSET Topics) /\ <<>> \in Seq(Topics)
      /\ <<>> \in Seq(Requests)
  OBVIOUS
<1>2. IsSequence(<<>>)
  BY <1>1, SequenceOfSome
<1>3. Matched(<<>>, <<>>, <<>>, "sub")
  <2>1. DOMAIN <<>> = {}
    OBVIOUS
  <2> QED
    BY <2>1, MatchedNothing
<1>4. Matched(Withdrawn(<<>>), <<>>, <<>>, "unsub")
  <2>1. DOMAIN Withdrawn(<<>>) = {}
    BY DEF Withdrawn
  <2> QED
    BY <2>1, MatchedNothing
<1> QED
  BY <1>1, <1>2, <1>3, <1>4

(* What an ended session waited for is forgotten with what was on the way. *)
LEMMA EndAcks ==
  ASSUME SessionInv, AcksInv, NEW s \in Sessions, NEW e, End(s, e), initial' = initial
  PROVE  AcksInv'
<1>1. /\ phase' = [phase EXCEPT ![s] = IF e THEN "failed" ELSE "ended"]
      /\ commands' = [commands EXCEPT ![s] = <<>>]
      /\ awaited' = [awaited EXCEPT ![s] = [sub |-> <<>>, unsub |-> <<>>]]
      /\ outgoing' = [outgoing EXCEPT ![s] = <<>>]
      /\ incoming' = [incoming EXCEPT ![s] = <<>>]
  BY DEF End
<1>2. Domains' /\ \A u \in Sessions \ {s} : Rests(u)
  BY <1>1 DEF AcksInv, Domains, Rests, Onward, SessionInv
<1>3. /\ commands'[s] = <<>> /\ awaited'[s] = [sub |-> <<>>, unsub |-> <<>>]
      /\ outgoing'[s] = <<>> /\ incoming'[s] = <<>> /\ initial'[s] \subseteq Topics
  BY <1>1 DEF AcksInv, Domains, AcksOK
<1>4. AcksOK(s)'
  BY <1>3, NothingAsked DEF AcksOK
<1> QED
  BY <1>2, <1>4, AcksOne

(* The loop goes on with what it has. *)
LEMMA AgainOnward ==
  ASSUME SessionInv, NEW s \in Sessions, Again(s)
  PROVE  phase'[s] \notin {"none", "starting"} /\ \A u \in Sessions : Onward(u)
<1>1. phase'[s] \in {"select", "closing"} /\ \A u \in Sessions \ {s} : phase'[u] = phase[u]
  BY Positions
<1> QED
  BY <1>1 DEF Onward

(* A request of session s that is taken, of a kind and for some filters, with what the loop
   now waits for *)
LEMMA RequestTaken ==
  ASSUME NEW subs \in Seq(SUBSET Topics), NEW unsubs \in Seq(Topics), NEW packets,
         NEW reqs \in Seq(Requests),
         Matched(subs, packets, reqs, "sub"), Matched(Withdrawn(unsubs), packets, reqs, "unsub"),
         NEW r \in Requests
  PROVE  /\ Append(reqs, r) \in Seq(Requests)
         /\ r.kind = "sub" =>
              /\ Append(subs, r.of) \in Seq(SUBSET Topics)
              /\ Matched(Append(subs, r.of), packets, Append(reqs, r), "sub")
              /\ Matched(Withdrawn(unsubs), packets, Append(reqs, r), "unsub")
         /\ \A f \in Topics : r.kind = "unsub" /\ r.of = {f} =>
              /\ Append(unsubs, f) \in Seq(Topics)
              /\ Matched(subs, packets, Append(reqs, r), "sub")
              /\ Matched(Withdrawn(Append(unsubs, f)), packets, Append(reqs, r), "unsub")
<1>1. /\ Append(reqs, r) \in Seq(Requests) /\ IsSequence(reqs)
      /\ IsSequence(subs) /\ IsSequence(unsubs)
  BY TypedSequence
<1>2. ASSUME r.kind = "sub"
      PROVE  /\ Append(subs, r.of) \in Seq(SUBSET Topics)
             /\ Matched(Append(subs, r.of), packets, Append(reqs, r), "sub")
             /\ Matched(Withdrawn(unsubs), packets, Append(reqs, r), "unsub")
  <2>1. r.of \in SUBSET Topics
    BY DEF Requests
  <2>2. Append(subs, r.of) \in Seq(SUBSET Topics)
    BY <2>1, TypedSequence
  <2>3. PICK k, more : k = Len(subs) /\ more = Append(subs, r.of)
    OBVIOUS
  <2>4. /\ k \in Nat /\ DOMAIN subs = 1..k /\ DOMAIN more = 1..(k + 1)
        /\ \A i \in 1..k : more[i] = subs[i]
        /\ more[k + 1] = r.of
    BY <1>1, <2>3, PacketAppend
  <2>5. Matched(more, packets, Append(reqs, r), "sub")
    BY <1>1, <1>2, <2>4, MatchedMore
  <2>6. r.kind # "unsub"
    BY <1>2
  <2>7. Matched(Withdrawn(unsubs), packets, Append(reqs, r), "unsub")
    BY <1>1, <2>6, MatchedOther
  <2> QED
    BY <2>2, <2>3, <2>5, <2>7
<1>3. ASSUME NEW f \in Topics, r.kind = "unsub", r.of = {f}
      PROVE  /\ Append(unsubs, f) \in Seq(Topics)
             /\ Matched(subs, packets, Append(reqs, r), "sub")
             /\ Matched(Withdrawn(Append(unsubs, f)), packets, Append(reqs, r), "unsub")
  <2>1. Append(unsubs, f) \in Seq(Topics)
    BY TypedSequence
  <2>2. r.kind # "sub"
    BY <1>3
  <2>3. Matched(subs, packets, Append(reqs, r), "sub")
    BY <1>1, <2>2, MatchedOther
  <2>4. PICK a, b : a = Withdrawn(unsubs) /\ b = Withdrawn(Append(unsubs, f))
    OBVIOUS
  <2>5. PICK k \in Nat :
          /\ DOMAIN a = 1..k /\ DOMAIN b = 1..(k + 1)
          /\ \A i \in 1..k : b[i] = a[i]
          /\ b[k + 1] = {f}
    <3>1. PICK k, more : k = Len(unsubs) /\ more = Append(unsubs, f)
      OBVIOUS
    <3>2. /\ k \in Nat /\ DOMAIN unsubs = 1..k /\ DOMAIN more = 1..(k + 1)
          /\ \A i \in 1..k : more[i] = unsubs[i]
          /\ more[k + 1] = f
      BY <1>1, <3>1, PacketAppend
    <3>3. b = Withdrawn(more)
      BY <2>4, <3>1
    <3>4. DOMAIN a = 1..k /\ DOMAIN b = 1..(k + 1)
      BY <2>4, <3>2, <3>3 DEF Withdrawn
    <3>5. \A i \in 1..k : i \in DOMAIN unsubs /\ i \in DOMAIN more
      BY <3>2
    <3>6. \A i \in 1..k : b[i] = a[i]
      BY <2>4, <3>2, <3>3, <3>5 DEF Withdrawn
    <3>7. k + 1 \in DOMAIN more
      BY <3>2
    <3>8. b[k + 1] = {f}
      BY <3>2, <3>3, <3>7 DEF Withdrawn
    <3> QED
      BY <3>2, <3>4, <3>6, <3>8
  <2>6. Matched(b, packets, Append(reqs, r), "unsub")
    BY <1>1, <1>3, <2>4, <2>5, MatchedMore
  <2> QED
    BY <2>1, <2>3, <2>4, <2>6
<1> QED
  BY <1>1, <1>2, <1>3

(* The session begins with the request for its initial filters. *)
LEMMA BeginAcks ==
  ASSUME SessionInv, AcksInv, NEW s \in Sessions, Begin(s)
  PROVE  AcksInv'
<1>0. initial' = initial /\ phase[s] = "starting"
  BY DEF Begin
<1>1. CASE End(s, TRUE)
  BY <1>0, <1>1, EndAcks
<1>2. CASE /\ Again(s)
           /\ outgoing' = [outgoing EXCEPT ![s] = <<[kind |-> "sub", of |-> initial[s]]>>]
           /\ awaited'  = [awaited EXCEPT ![s].sub = <<initial[s]>>]
           /\ UNCHANGED <<commands, incoming>>
  <2>1. PICK subs \in Seq(SUBSET Topics), unsubs \in Seq(Topics) :
          /\ awaited[s] = [sub |-> subs, unsub |-> unsubs]
          /\ Matched(subs, incoming[s], outgoing[s], "sub")
          /\ Matched(Withdrawn(unsubs), incoming[s], outgoing[s], "unsub")
          /\ subs = <<>>
    BY <1>0 DEF AcksInv, AcksOK
  <2>2. PICK r, v : r = [kind |-> "sub", of |-> initial[s]] /\ v = <<initial[s]>>
    OBVIOUS
  <2>3. r \in Requests /\ r.kind = "sub" /\ r.of = initial[s]
    BY <2>2 DEF Requests, AcksInv, AcksOK
  <2>4. /\ outgoing[s] = <<>> /\ outgoing[s] \in Seq(Requests)
        /\ Append(outgoing[s], r) = <<r>> /\ Append(subs, r.of) = v
    <3>1. outgoing[s] = <<>> /\ outgoing[s] \in Seq(Requests)
      BY <1>0 DEF AcksInv, AcksOK
    <3>2. \A x : Append(<<>>, x) = <<x>>
      OBVIOUS
    <3>3. Append(outgoing[s], r) = <<r>>
      BY <3>1, <3>2
    <3>4. Append(subs, r.of) = v
      BY <2>1, <2>2, <2>3, <3>2
    <3> QED
      BY <3>1, <3>3, <3>4
  <2>5. /\ <<r>> \in Seq(Requests) /\ v \in Seq(SUBSET Topics)
        /\ Matched(v, incoming[s], <<r>>, "sub")
        /\ Matched(Withdrawn(unsubs), incoming[s], <<r>>, "unsub")
    BY <2>1, <2>3, <2>4, RequestTaken
  <2>6. /\ DOMAIN awaited' = Sessions /\ \A u \in Sessions \ {s} : awaited'[u] = awaited[u]
        /\ awaited'[s] = [sub |-> v, unsub |-> unsubs]
    <3>1. awaited' = [awaited EXCEPT ![s].sub = v] /\ DOMAIN awaited = Sessions
      BY <1>2, <2>2 DEF AcksInv, Domains
    <3> QED
      BY <2>1, <3>1, OthersWait, SubsChange
  <2>7. outgoing'[s] = <<r>> /\ \A u \in Sessions \ {s} : outgoing'[u] = outgoing[u]
    BY <1>2, <2>2 DEF AcksInv, Domains
  <2>8. Domains' /\ \A u \in Sessions \ {s} : Rests(u)
    BY <1>0, <1>2, <2>6, <2>7, AgainOnward DEF AcksInv, Domains, Rests
  <2>9. AcksOK(s)'
    <3>1. phase'[s] \notin {"none", "starting"}
      BY <1>2, AgainOnward
    <3> QED
      BY <1>0, <1>2, <2>5, <2>6, <2>7, <3>1 DEF AcksInv, AcksOK
  <2> QED
    BY <2>8, <2>9, AcksOne
<1> QED
  BY <1>1, <1>2 DEF Begin

(* A command is waited for if, and only if, the client has taken its request. *)
LEMMA CommandAcks ==
  ASSUME SessionInv, AcksInv, NEW s \in Sessions, HandleCommand(s)
  PROVE  AcksInv'
<1>1. PICK c, cmds : c = Head(commands[s]) /\ cmds = commands[s]
  OBVIOUS
<1>2. /\ commands' = [commands EXCEPT ![s] = Tail(cmds)] /\ cmds # <<>>
      /\ Again(s) /\ UNCHANGED <<initial, incoming>>
      /\ \/ Request(s, c) /\ Await(s, c)
         \/ UNCHANGED <<outgoing, awaited>>
  BY <1>1 DEF HandleCommand
<1>3. cmds \in Seq(Commands) /\ c \in Commands /\ Tail(cmds) \in Seq(Commands)
  <2>1. cmds \in Seq(Commands)
    BY <1>1 DEF AcksInv, AcksOK
  <2> QED
    BY <1>1, <1>2, <2>1, TypedSequence
<1>4. /\ commands'[s] = Tail(cmds) /\ DOMAIN commands' = Sessions
      /\ \A u \in Sessions \ {s} : commands'[u] = commands[u]
      /\ phase'[s] \notin {"none", "starting"} /\ \A u \in Sessions : Onward(u)
  BY <1>2, AgainOnward DEF AcksInv, Domains
<1>5. PICK subs \in Seq(SUBSET Topics), unsubs \in Seq(Topics) :
        /\ awaited[s] = [sub |-> subs, unsub |-> unsubs]
        /\ Matched(subs, incoming[s], outgoing[s], "sub")
        /\ Matched(Withdrawn(unsubs), incoming[s], outgoing[s], "unsub")
  BY DEF AcksInv, AcksOK
<1>6. CASE UNCHANGED <<outgoing, awaited>>
  <2>1. Domains' /\ \A u \in Sessions \ {s} : Rests(u)
    BY <1>2, <1>4, <1>6 DEF AcksInv, Domains, Rests
  <2>2. AcksOK(s)'
    BY <1>2, <1>3, <1>4, <1>5, <1>6 DEF AcksInv, AcksOK
  <2> QED
    BY <2>1, <2>2, AcksOne
<1>7. CASE Request(s, c) /\ Await(s, c)
  <2>1. PICK r : r = [kind |-> c.kind, of |-> {c.of}]
    OBVIOUS
  <2>2. /\ c.kind \in {"sub", "unsub"} /\ c.of \in Topics
        /\ r \in Requests /\ r.kind = c.kind /\ r.of = {c.of}
    BY <1>3, <2>1 DEF Commands, Requests
  <2>3. /\ outgoing'[s] = Append(outgoing[s], r) /\ DOMAIN outgoing' = Sessions
        /\ \A u \in Sessions \ {s} : outgoing'[u] = outgoing[u]
    BY <1>7, <2>1 DEF Request, AcksInv, Domains
  <2>4. outgoing[s] \in Seq(Requests) /\ s \in DOMAIN awaited /\ DOMAIN awaited = Sessions
    BY DEF AcksInv, AcksOK, Domains
  <2>5. \E more \in Seq(SUBSET Topics), fewer \in Seq(Topics) :
          /\ DOMAIN awaited' = Sessions
          /\ \A u \in Sessions \ {s} : awaited'[u] = awaited[u]
          /\ awaited'[s] = [sub |-> more, unsub |-> fewer]
          /\ Append(outgoing[s], r) \in Seq(Requests)
          /\ Matched(more, incoming[s], Append(outgoing[s], r), "sub")
          /\ Matched(Withdrawn(fewer), incoming[s], Append(outgoing[s], r), "unsub")
    <3>1. CASE c.kind = "sub"
      <4>1. PICK v : v = Append(subs, {c.of})
        OBVIOUS
      <4>2. awaited' = [awaited EXCEPT ![s].sub = Append(awaited[s].sub, {c.of})]
        BY <1>7, <3>1 DEF Await
      <4>3. awaited' = [awaited EXCEPT ![s].sub = v]
        BY <1>5, <4>1, <4>2
      <4>4. awaited'[s] = [sub |-> v, unsub |-> unsubs]
        BY <1>5, <2>4, <4>3, SubsChange
      <4>5. DOMAIN awaited' = Sessions /\ \A u \in Sessions \ {s} : awaited'[u] = awaited[u]
        BY <2>4, <4>3, OthersWait
      <4>6. /\ Append(outgoing[s], r) \in Seq(Requests) /\ v \in Seq(SUBSET Topics)
            /\ Matched(v, incoming[s], Append(outgoing[s], r), "sub")
            /\ Matched(Withdrawn(unsubs), incoming[s], Append(outgoing[s], r), "unsub")
        BY <1>5, <2>2, <2>4, <3>1, <4>1, RequestTaken
      <4> QED
        BY <4>4, <4>5, <4>6
    <3>2. CASE c.kind = "unsub"
      <4>1. PICK v : v = Append(unsubs, c.of)
        OBVIOUS
      <4>2. awaited' = [awaited EXCEPT ![s].unsub = Append(awaited[s].unsub, c.of)]
        BY <1>7, <3>2 DEF Await
      <4>3. awaited' = [awaited EXCEPT ![s].unsub = v]
        BY <1>5, <4>1, <4>2
      <4>4. awaited'[s] = [sub |-> subs, unsub |-> v]
        BY <1>5, <2>4, <4>3, UnsubsChange
      <4>5. DOMAIN awaited' = Sessions /\ \A u \in Sessions \ {s} : awaited'[u] = awaited[u]
        BY <2>4, <4>3, OthersWait
      <4>6. /\ Append(outgoing[s], r) \in Seq(Requests) /\ v \in Seq(Topics)
            /\ Matched(subs, incoming[s], Append(outgoing[s], r), "sub")
            /\ Matched(Withdrawn(v), incoming[s], Append(outgoing[s], r), "unsub")
        BY <1>5, <2>2, <2>4, <3>2, <4>1, RequestTaken
      <4> QED
        BY <4>4, <4>5, <4>6
    <3> QED
      BY <2>2, <3>1, <3>2
  <2>6. Domains' /\ \A u \in Sessions \ {s} : Rests(u)
    BY <1>2, <1>4, <2>3, <2>5 DEF AcksInv, Domains, Rests
  <2>7. AcksOK(s)'
    <3>1. PICK more \in Seq(SUBSET Topics), fewer \in Seq(Topics) :
            /\ awaited'[s] = [sub |-> more, unsub |-> fewer]
            /\ outgoing'[s] \in Seq(Requests)
            /\ Matched(more, incoming'[s], outgoing'[s], "sub")
            /\ Matched(Withdrawn(fewer), incoming'[s], outgoing'[s], "unsub")
      BY <1>2, <2>3, <2>5
    <3>2. commands'[s] \in Seq(Commands) /\ initial'[s] \subseteq Topics
      BY <1>2, <1>3, <1>4 DEF AcksInv, AcksOK
    <3>3. IsSequence(incoming'[s]) /\ \A i \in DOMAIN incoming'[s] : incoming'[s][i].kind \in PacketKinds
      BY <1>2 DEF AcksInv, AcksOK
    <3>4. phase'[s] \notin {"none", "starting"}
      BY <1>4
    <3> QED
      BY <3>1, <3>2, <3>3, <3>4 DEF AcksOK
  <2> QED
    BY <2>6, <2>7, AcksOne
<1> QED
  BY <1>2, <1>6, <1>7

(* The loop takes an acknowledgement off, and what it has waited for longest. *)
LEMMA AckAcks ==
  ASSUME SessionInv, AcksInv, NEW s \in Sessions, HandleAck(s)
  PROVE  AcksInv'
<1>1. PICK p, packets : p = Head(incoming[s]) /\ packets = incoming[s]
  OBVIOUS
<1>2. /\ packets # <<>> /\ incoming' = [incoming EXCEPT ![s] = Tail(packets)]
      /\ Again(s) /\ UNCHANGED <<initial, commands, outgoing>>
  BY <1>1 DEF HandleAck
<1>3. PICK subs \in Seq(SUBSET Topics), unsubs \in Seq(Topics) :
        /\ awaited[s] = [sub |-> subs, unsub |-> unsubs]
        /\ Matched(subs, packets, outgoing[s], "sub")
        /\ Matched(Withdrawn(unsubs), packets, outgoing[s], "unsub")
  BY <1>1 DEF AcksInv, AcksOK
<1>4. /\ IsSequence(packets) /\ \A i \in DOMAIN packets : packets[i].kind \in PacketKinds
      /\ s \in DOMAIN awaited /\ DOMAIN awaited = Sessions
      /\ IsSequence(subs) /\ IsSequence(unsubs)
  <2>1. IsSequence(subs) /\ IsSequence(unsubs)
    BY TypedSequence
  <2> QED
    BY <1>1, <2>1 DEF AcksInv, AcksOK, Domains
<1>5. /\ IsSequence(Tail(packets))
      /\ \A i \in DOMAIN Tail(packets) : Tail(packets)[i].kind \in PacketKinds
  <2>1. PICK t : t = Tail(packets)
    OBVIOUS
  <2>2. /\ IsSequence(t) /\ DOMAIN t = 1..(Len(packets) - 1) /\ DOMAIN packets = 1..Len(packets)
        /\ Len(packets) \in Nat
        /\ \A i \in 1..(Len(packets) - 1) : t[i] = packets[i + 1]
    BY <1>2, <1>4, <2>1, PacketTail
  <2>3. ASSUME NEW i \in DOMAIN t PROVE t[i].kind \in PacketKinds
    <3>1. i \in 1..(Len(packets) - 1) /\ i + 1 \in DOMAIN packets
      BY <2>2
    <3> QED
      BY <1>4, <2>2, <3>1
  <2> QED
    BY <2>1, <2>2, <2>3
<1>6. \E fewer \in Seq(SUBSET Topics), less \in Seq(Topics) :
        /\ DOMAIN awaited' = Sessions
        /\ \A u \in Sessions \ {s} : awaited'[u] = awaited[u]
        /\ awaited'[s] = [sub |-> fewer, unsub |-> less]
        /\ Matched(fewer, Tail(packets), outgoing[s], "sub")
        /\ Matched(Withdrawn(less), Tail(packets), outgoing[s], "unsub")
  <2>1. CASE p.kind = "suback" /\ awaited' = [awaited EXCEPT ![s].sub = Tail(awaited[s].sub)]
    <3>1. p.kind = AckOf("sub") /\ p.kind # AckOf("unsub")
      BY <2>1 DEF AckOf
    <3>2. subs # <<>>
      <4>1. 1 \in DOMAIN subs
        BY <1>1, <1>2, <1>3, <1>4, <3>1, MatchedFirst
      <4> QED
        BY <4>1
    <3>3. PICK v, k : v = Tail(subs) /\ k = Len(subs) - 1
      OBVIOUS
    <3>4. /\ k \in Nat /\ DOMAIN subs = 1..(k + 1) /\ DOMAIN v = 1..k
          /\ \A i \in 1..k : v[i] = subs[i + 1]
          /\ v \in Seq(SUBSET Topics)
      BY <1>4, <3>2, <3>3, PacketTail, TypedSequence
    <3>5. Matched(v, Tail(packets), outgoing[s], "sub")
      BY <1>1, <1>2, <1>3, <1>4, <3>1, <3>4, MatchedRest
    <3>6. Matched(Withdrawn(unsubs), Tail(packets), outgoing[s], "unsub")
      BY <1>1, <1>2, <1>3, <1>4, <3>1, MatchedPast
    <3>7. awaited' = [awaited EXCEPT ![s].sub = v]
      BY <1>3, <2>1, <3>3
    <3>8. awaited'[s] = [sub |-> v, unsub |-> unsubs]
      BY <1>3, <1>4, <3>7, SubsChange
    <3>9. DOMAIN awaited' = Sessions /\ \A u \in Sessions \ {s} : awaited'[u] = awaited[u]
      BY <1>4, <3>7, OthersWait
    <3> QED
      BY <3>4, <3>5, <3>6, <3>8, <3>9
  <2>2. CASE p.kind = "unsuback" /\ awaited' = [awaited EXCEPT ![s].unsub = Tail(awaited[s].unsub)]
    <3>1. p.kind = AckOf("unsub") /\ p.kind # AckOf("sub")
      BY <2>2 DEF AckOf
    <3>2. unsubs # <<>>
      <4>1. 1 \in DOMAIN Withdrawn(unsubs)
        BY <1>1, <1>2, <1>3, <1>4, <3>1, MatchedFirst
      <4> QED
        BY <4>1 DEF Withdrawn
    <3>3. PICK v, k : v = Tail(unsubs) /\ k = Len(unsubs) - 1
      OBVIOUS
    <3>4. /\ k \in Nat /\ DOMAIN unsubs = 1..(k + 1) /\ DOMAIN v = 1..k
          /\ \A i \in 1..k : v[i] = unsubs[i + 1]
          /\ v \in Seq(Topics)
      BY <1>4, <3>2, <3>3, PacketTail, TypedSequence
    <3>5. PICK a, b : a = Withdrawn(unsubs) /\ b = Withdrawn(v)
      OBVIOUS
    <3>6. /\ DOMAIN a = 1..(k + 1) /\ DOMAIN b = 1..k
          /\ \A i \in 1..k : b[i] = a[i + 1]
      <4>1. ASSUME NEW i \in 1..k PROVE b[i] = a[i + 1]
        <5>1. i \in DOMAIN v /\ i + 1 \in DOMAIN unsubs
          BY <3>4
        <5> QED
          BY <3>4, <3>5, <5>1 DEF Withdrawn
      <4> QED
        BY <3>4, <3>5, <4>1 DEF Withdrawn
    <3>7. Matched(b, Tail(packets), outgoing[s], "unsub")
      <4>1. Matched(a, packets, outgoing[s], "unsub")
        BY <1>3, <3>5
      <4> QED
        BY <1>1, <1>2, <1>4, <3>1, <3>4, <3>6, <4>1, MatchedRest
    <3>8. Matched(subs, Tail(packets), outgoing[s], "sub")
      BY <1>1, <1>2, <1>3, <1>4, <3>1, MatchedPast
    <3>9. awaited' = [awaited EXCEPT ![s].unsub = v]
      BY <1>3, <2>2, <3>3
    <3>10. awaited'[s] = [sub |-> subs, unsub |-> v]
      BY <1>3, <1>4, <3>9, UnsubsChange
    <3>11. DOMAIN awaited' = Sessions /\ \A u \in Sessions \ {s} : awaited'[u] = awaited[u]
      BY <1>4, <3>9, OthersWait
    <3> QED
      BY <3>4, <3>5, <3>7, <3>8, <3>10, <3>11
  <2> QED
    BY <1>1, <2>1, <2>2 DEF HandleAck
<1>7. /\ incoming'[s] = Tail(packets) /\ DOMAIN incoming' = Sessions
      /\ \A u \in Sessions \ {s} : incoming'[u] = incoming[u]
      /\ phase'[s] \notin {"none", "starting"} /\ \A u \in Sessions : Onward(u)
  BY <1>2, AgainOnward DEF AcksInv, Domains
<1>8. Domains' /\ \A u \in Sessions \ {s} : Rests(u)
  BY <1>2, <1>6, <1>7 DEF AcksInv, Domains, Rests
<1>9. AcksOK(s)'
  BY <1>2, <1>5, <1>6, <1>7 DEF AcksInv, AcksOK
<1> QED
  BY <1>8, <1>9, AcksOne

(* The broker answers the oldest request. *)
LEMMA AnswerAcks ==
  ASSUME SessionInv, AcksInv, NEW s \in Sessions, Answer(s)
  PROVE  AcksInv'
<1>1. PICK r, reqs : r = Head(outgoing[s]) /\ reqs = outgoing[s]
  OBVIOUS
<1>2. PICK codes :
        incoming' = [incoming EXCEPT ![s] =
                      Append(incoming[s], [kind |-> AckOf(r.kind), of |-> r.of, codes |-> codes])]
  BY <1>1 DEF Answer
<1>3. PICK p : p = [kind |-> AckOf(r.kind), of |-> r.of, codes |-> codes]
  OBVIOUS
<1>4. p.kind = AckOf(r.kind) /\ p.of = r.of
  BY <1>3
<1>5. /\ reqs # <<>> /\ outgoing' = [outgoing EXCEPT ![s] = Tail(reqs)]
      /\ phase[s] = "select" /\ UNCHANGED <<initial, phase, commands, awaited>>
  BY <1>1 DEF Answer
<1>6. PICK subs \in Seq(SUBSET Topics), unsubs \in Seq(Topics) :
        /\ awaited[s] = [sub |-> subs, unsub |-> unsubs]
        /\ Matched(subs, incoming[s], reqs, "sub")
        /\ Matched(Withdrawn(unsubs), incoming[s], reqs, "unsub")
  BY <1>1 DEF AcksInv, AcksOK
<1>7. /\ reqs \in Seq(Requests) /\ IsSequence(incoming[s]) /\ IsSequence(reqs)
      /\ r \in Requests /\ Tail(reqs) \in Seq(Requests) /\ r.kind \in {"sub", "unsub"}
  <2>1. reqs \in Seq(Requests) /\ IsSequence(incoming[s])
    BY <1>1 DEF AcksInv, AcksOK
  <2>2. IsSequence(reqs) /\ r \in Requests /\ Tail(reqs) \in Seq(Requests)
    BY <1>1, <1>5, <2>1, TypedSequence
  <2> QED
    BY <2>1, <2>2 DEF Requests
<1>8. /\ Matched(subs, Append(incoming[s], p), Tail(reqs), "sub")
      /\ Matched(Withdrawn(unsubs), Append(incoming[s], p), Tail(reqs), "unsub")
  BY <1>1, <1>4, <1>5, <1>6, <1>7, MatchedAnswer
<1>9. /\ IsSequence(Append(incoming[s], p))
      /\ \A i \in DOMAIN Append(incoming[s], p) : Append(incoming[s], p)[i].kind \in PacketKinds
  <2>1. PICK q : q = Append(incoming[s], p)
    OBVIOUS
  <2>2. /\ IsSequence(q) /\ Len(incoming[s]) \in Nat /\ DOMAIN q = 1..(Len(incoming[s]) + 1)
        /\ DOMAIN incoming[s] = 1..Len(incoming[s])
        /\ \A i \in 1..Len(incoming[s]) : q[i] = incoming[s][i]
        /\ q[Len(incoming[s]) + 1] = p
    BY <1>7, <2>1, PacketAppend
  <2>3. p.kind \in PacketKinds
    BY <1>4 DEF AckOf, PacketKinds
  <2>4. \A i \in DOMAIN incoming[s] : incoming[s][i].kind \in PacketKinds
    BY DEF AcksInv, AcksOK
  <2> QED
    BY <2>1, <2>2, <2>3, <2>4
<1>10. /\ incoming'[s] = Append(incoming[s], p) /\ outgoing'[s] = Tail(reqs)
       /\ Domains' /\ \A u \in Sessions \ {s} : Rests(u)
  BY <1>2, <1>3, <1>5 DEF AcksInv, Domains, Rests, Onward
<1>11. AcksOK(s)'
  BY <1>5, <1>6, <1>7, <1>8, <1>9, <1>10 DEF AcksInv, AcksOK
<1> QED
  BY <1>10, <1>11, AcksOne

(* A message arrives. *)
LEMMA PublishAcks ==
  ASSUME SessionInv, AcksInv, NEW s \in Sessions, Publish(s)
  PROVE  AcksInv'
<1>1. PICK p : p.kind = "publish" /\ incoming' = [incoming EXCEPT ![s] = Append(incoming[s], p)]
  BY DEF Publish
<1>2. UNCHANGED <<initial, phase, commands, awaited, outgoing>>
  BY DEF Publish
<1>3. PICK subs \in Seq(SUBSET Topics), unsubs \in Seq(Topics) :
        /\ awaited[s] = [sub |-> subs, unsub |-> unsubs]
        /\ Matched(subs, incoming[s], outgoing[s], "sub")
        /\ Matched(Withdrawn(unsubs), incoming[s], outgoing[s], "unsub")
        /\ phase[s] \in {"none", "starting"} => subs = <<>>
  BY DEF AcksInv, AcksOK
<1>4. IsSequence(incoming[s]) /\ p.kind # AckOf("sub") /\ p.kind # AckOf("unsub")
  BY <1>1 DEF AcksInv, AcksOK, AckOf
<1>5. /\ Matched(subs, Append(incoming[s], p), outgoing[s], "sub")
      /\ Matched(Withdrawn(unsubs), Append(incoming[s], p), outgoing[s], "unsub")
  BY <1>3, <1>4, MatchedPacket
<1>6. /\ IsSequence(Append(incoming[s], p))
      /\ \A i \in DOMAIN Append(incoming[s], p) : Append(incoming[s], p)[i].kind \in PacketKinds
  <2>1. PICK q : q = Append(incoming[s], p)
    OBVIOUS
  <2>2. /\ IsSequence(q) /\ Len(incoming[s]) \in Nat /\ DOMAIN q = 1..(Len(incoming[s]) + 1)
        /\ DOMAIN incoming[s] = 1..Len(incoming[s])
        /\ \A i \in 1..Len(incoming[s]) : q[i] = incoming[s][i]
        /\ q[Len(incoming[s]) + 1] = p
    BY <1>4, <2>1, PacketAppend
  <2>3. p.kind \in PacketKinds
    BY <1>1 DEF PacketKinds
  <2>4. \A i \in DOMAIN incoming[s] : incoming[s][i].kind \in PacketKinds
    BY DEF AcksInv, AcksOK
  <2> QED
    BY <2>1, <2>2, <2>3, <2>4
<1>7. /\ incoming'[s] = Append(incoming[s], p)
      /\ Domains' /\ \A u \in Sessions \ {s} : Rests(u)
  BY <1>1, <1>2 DEF AcksInv, Domains, Rests, Onward
<1>8. AcksOK(s)'
  BY <1>2, <1>3, <1>5, <1>6, <1>7 DEF AcksInv, AcksOK
<1> QED
  BY <1>7, <1>8, AcksOne

(* A message is handed over. *)
LEMMA DeliverAcks ==
  ASSUME SessionInv, MessagesInv, AcksInv, NEW s \in Sessions, Deliver(s)
  PROVE  AcksInv'
<1>0. initial' = initial /\ phase[s] = "deliver"
  BY DEF Deliver
<1>1. CASE End(s, FALSE)
  BY <1>0, <1>1, EndAcks
<1>2. CASE Again(s) /\ incoming' = [incoming EXCEPT ![s] = Tail(incoming[s])]
           /\ UNCHANGED <<commands, awaited, outgoing>>
  <2>1. PICK packets : packets = incoming[s]
    OBVIOUS
  <2>2. packets # <<>> /\ Head(packets).kind = "publish"
    BY <1>0, <2>1 DEF MessagesInv, WayOK
  <2>3. PICK subs \in Seq(SUBSET Topics), unsubs \in Seq(Topics) :
          /\ awaited[s] = [sub |-> subs, unsub |-> unsubs]
          /\ Matched(subs, packets, outgoing[s], "sub")
          /\ Matched(Withdrawn(unsubs), packets, outgoing[s], "unsub")
    BY <2>1 DEF AcksInv, AcksOK
  <2>4. /\ IsSequence(packets) /\ Head(packets).kind # AckOf("sub")
        /\ Head(packets).kind # AckOf("unsub")
    BY <2>1, <2>2 DEF AcksInv, AcksOK, AckOf
  <2>5. /\ Matched(subs, Tail(packets), outgoing[s], "sub")
        /\ Matched(Withdrawn(unsubs), Tail(packets), outgoing[s], "unsub")
    BY <2>2, <2>3, <2>4, MatchedPast
  <2>6. /\ IsSequence(Tail(packets))
        /\ \A i \in DOMAIN Tail(packets) : Tail(packets)[i].kind \in PacketKinds
    <3>1. PICK t : t = Tail(packets)
      OBVIOUS
    <3>2. /\ IsSequence(t) /\ DOMAIN t = 1..(Len(packets) - 1) /\ DOMAIN packets = 1..Len(packets)
          /\ Len(packets) \in Nat
          /\ \A i \in 1..(Len(packets) - 1) : t[i] = packets[i + 1]
      BY <2>2, <2>4, <3>1, PacketTail
    <3>3. \A i \in DOMAIN packets : packets[i].kind \in PacketKinds
      BY <2>1 DEF AcksInv, AcksOK
    <3>4. ASSUME NEW i \in DOMAIN t PROVE t[i].kind \in PacketKinds
      <4>1. i \in 1..(Len(packets) - 1) /\ i + 1 \in DOMAIN packets
        BY <3>2
      <4> QED
        BY <3>2, <3>3, <4>1
    <3> QED
      BY <3>1, <3>2, <3>4
  <2>7. /\ incoming'[s] = Tail(packets) /\ phase'[s] \notin {"none", "starting"}
        /\ Domains' /\ \A u \in Sessions \ {s} : Rests(u)
    BY <1>0, <1>2, <2>1, AgainOnward DEF AcksInv, Domains, Rests
  <2>8. AcksOK(s)'
    BY <1>0, <1>2, <2>3, <2>5, <2>6, <2>7 DEF AcksInv, AcksOK
  <2> QED
    BY <2>7, <2>8, AcksOne
<1> QED
  BY <1>1, <1>2 DEF Deliver

(* Each step of a loop, and the end of its connection *)
LEMMA LoopAcks ==
  ASSUME SessionInv, MessagesInv, AcksInv, NEW s \in Sessions, Loop(s) \/ ConnectionLost(s)
  PROVE  AcksInv'
<1>1. ASSUME UNCHANGED <<initial, commands, awaited, outgoing, incoming>>,
             \A u \in Sessions : Onward(u)
      PROVE  AcksInv'
  BY <1>1, AcksNone DEF AcksInv, AcksOK, Domains
<1>2. CASE Close(s)
  BY <1>2, EndAcks DEF Close
<1>3. CASE HandlePublish(s)
  <2>1. CASE End(s, TRUE)
    BY <1>3, <2>1, EndAcks DEF HandlePublish
  <2>2. CASE Goto(s, "deliver") /\ UNCHANGED <<commands, wireVars>>
    <3>1. \A u \in Sessions : Onward(u)
      BY <2>2, Positions DEF Onward
    <3> QED
      BY <1>1, <1>3, <2>2, <3>1 DEF HandlePublish, wireVars
  <2> QED
    BY <1>3, <2>1, <2>2 DEF HandlePublish
<1>4. CASE Disconnect(s)
  BY <1>1, <1>4, AgainOnward DEF Disconnect, wireVars
<1>5. CASE ConnectionLost(s)
  BY <1>5, EndAcks DEF ConnectionLost
<1> QED
  BY <1>2, <1>3, <1>4, <1>5, BeginAcks, CommandAcks, AckAcks, DeliverAcks DEF Loop

(* A click asks with a command, and only that. *)
LEMMA ToggleAcks ==
  ASSUME SessionInv, AcksInv, NEW f \in Topics, Toggle(f)
  PROVE  AcksInv'
<1>1. UNCHANGED <<initial, phase, awaited, outgoing, incoming>>
  BY DEF Toggle, wireVars
<1>2. CASE commands' = commands
  BY <1>1, <1>2, AcksNone DEF AcksInv, AcksOK, Domains, Onward
<1>3. ASSUME NEW kind \in {"sub", "unsub"}, Live(request),
             commands' = [commands EXCEPT ![request] =
                           Append(commands[request], [kind |-> kind, of |-> f])]
      PROVE  AcksInv'
  <2>1. PICK c : c = [kind |-> kind, of |-> f]
    OBVIOUS
  <2>2. c \in Commands
    BY <2>1 DEF Commands
  <2>3. ASSUME NEW s \in Sessions PROVE AcksOK(s)'
    <3>1. commands[s] \in Seq(Commands) /\ DOMAIN commands = Sessions
      BY DEF AcksInv, AcksOK, Domains
    <3>2. Append(commands[s], c) \in Seq(Commands)
      BY <2>2, <3>1, TypedSequence
    <3>3. commands'[s] \in Seq(Commands)
      BY <1>3, <2>1, <3>1, <3>2
    <3> QED
      BY <1>1, <3>3 DEF AcksInv, AcksOK
  <2>4. Domains'
    BY <1>1, <1>3 DEF AcksInv, Domains
  <2> QED
    BY <2>3, <2>4 DEF AcksInv
<1>4. Send("sub", f, "Subscribing") \/ Send("unsub", f, "Unsubscribing")
  BY DEF Toggle
<1> QED
  BY <1>2, <1>3, <1>4 DEF Send

(* A session starts with its initial filters, and has asked nothing. *)
LEMMA StartAcks ==
  ASSUME MaxSessions \in Nat, SessionInv, AcksInv,
         NEW fs \in {Topics} \cup {{f} : f \in Topics}, StartSubscription(fs),
         phase[request + 1] = "none"
  PROVE  AcksInv'
<1>1. PICK new : new = request + 1
  OBVIOUS
<1>2. /\ new \in Sessions /\ phase' = [phase EXCEPT ![new] = "starting"]
      /\ initial' = [initial EXCEPT ![new] = fs]
      /\ UNCHANGED <<commands, awaited, outgoing, incoming>>
  BY <1>1 DEF StartSubscription, SessionInv, Sessions, wireVars
<1>3. fs \subseteq Topics
  OBVIOUS
<1>4. DOMAIN initial' = Sessions /\ \A s \in Sessions : initial'[s] \subseteq Topics
  BY <1>2, <1>3 DEF AcksInv, Domains, AcksOK
<1>5. \A s \in Sessions : Onward(s)
  BY <1>1, <1>2 DEF Onward, SessionInv
<1> QED
  BY <1>2, <1>4, <1>5, AcksNone

(* The end of a session is noted, after it. *)
LEMMA NotedAcks ==
  ASSUME SessionInv, AcksInv, NEW s \in Sessions, SubscriptionEnded(s)
  PROVE  AcksInv'
<1>1. /\ phase' = [phase EXCEPT ![s] = "noted"] /\ initial' = [initial EXCEPT ![s] = {}]
      /\ UNCHANGED <<commands, awaited, outgoing, incoming>>
  BY DEF SubscriptionEnded, wireVars
<1>2. DOMAIN initial' = Sessions /\ \A u \in Sessions : initial'[u] \subseteq Topics
  BY <1>1 DEF AcksInv, Domains, AcksOK
<1>3. \A u \in Sessions : Onward(u)
  BY <1>1 DEF Onward, SessionInv
<1> QED
  BY <1>1, <1>2, <1>3, AcksNone

(* Sessions the view has not started have not begun. *)
Later == \A s \in Sessions : s > request => phase[s] = "none"

(* It starts them in turn. *)
LEMMA LaterStep ==
  ASSUME MaxSessions \in Nat, SessionInv, Later, [Next]_vars
  PROVE  Later'
<1>1. CASE UNCHANGED <<request, phase>>
  BY <1>1 DEF Later
<1>2. ASSUME NEW s \in Sessions, phase[s] # "none", request' = request,
             NEW p, phase' = [phase EXCEPT ![s] = p]
      PROVE  Later'
  BY <1>2 DEF Later, SessionInv
<1>3. ASSUME NEW fs, StartSubscription(fs)
      PROVE  Later'
  <2>1. request' = request + 1 /\ phase' = [phase EXCEPT ![request + 1] = "starting"]
    BY <1>3 DEF StartSubscription
  <2> QED
    BY <2>1 DEF Later, SessionInv, Sessions
<1>4. CASE UNCHANGED vars
  BY <1>1, <1>4 DEF vars, viewVars
<1>5. CASE View
  <2>1. CASE \/ \E f \in Topics : Toggle(f)
             \/ Stop \/ ChooseProtocol \/ Select \/ Save \/ Saved
    BY <1>1, <2>1 DEF Toggle, Stop, ChooseProtocol, Select, Save, Saved, TakeProfile
  <2> QED
    BY <1>3, <1>5, <2>1 DEF View
<1>6. ASSUME NEW s \in Sessions, SubscriptionEnded(s)
      PROVE  Later'
  <2>1. phase[s] # "none" /\ request' = request /\ phase' = [phase EXCEPT ![s] = "noted"]
    BY <1>6 DEF SubscriptionEnded
  <2> QED
    BY <1>2, <2>1
<1>7. ASSUME NEW s \in Sessions, Loop(s) \/ ConnectionLost(s)
      PROVE  Later'
  <2>1. LoopMoves(s)
    BY <1>7, LoopStep
  <2> QED
    BY <1>2, <2>1 DEF LoopMoves, Live
<1>8. ASSUME NEW s \in Sessions, ReceiveStatus(s) \/ ReceiveMessage(s) \/ Answer(s) \/ Publish(s)
      PROVE  Later'
  BY <1>1, <1>8, ViewStep
<1> QED
  BY <1>4, <1>5, <1>6, <1>7, <1>8 DEF Next, Tasks

(* AcksInv is inductive, given the others. *)
LEMMA AcksStep ==
  ASSUME MaxSessions \in Nat, SessionInv, MessagesInv, Later, AcksInv, [Next]_vars
  PROVE  AcksInv'
<1>1. CASE UNCHANGED <<initial, phase, commands, awaited, outgoing, incoming>>
  BY <1>1, AcksNone DEF AcksInv, AcksOK, Domains, Onward
<1>2. CASE UNCHANGED vars
  BY <1>1, <1>2 DEF vars, wireVars
<1>3. CASE View
  <2>1. ASSUME NEW fs \in {Topics} \cup {{f} : f \in Topics}, StartSubscription(fs)
        PROVE  AcksInv'
    <3>1. request + 1 \in Sessions /\ request + 1 > request
      BY <2>1 DEF StartSubscription, SessionInv, Sessions
    <3>2. phase[request + 1] = "none"
      BY <3>1 DEF Later
    <3> QED
      BY <2>1, <3>2, StartAcks
  <2>2. CASE Stop \/ ChooseProtocol \/ Select \/ Save \/ Saved
    BY <1>1, <2>2 DEF Stop, ChooseProtocol, Select, Save, Saved, wireVars
  <2> QED
    BY <1>3, <2>1, <2>2, ToggleAcks DEF View
<1>4. ASSUME NEW s \in Sessions, ReceiveStatus(s) \/ ReceiveMessage(s)
      PROVE  AcksInv'
  BY <1>1, <1>4 DEF ReceiveStatus, ReceiveMessage, wireVars
<1> QED
  BY <1>2, <1>3, <1>4, LoopAcks, AnswerAcks, PublishAcks, NotedAcks DEF Next, Tasks

(* mqtt_data_plane.rs, the loop's two queues of what it waits for: every acknowledgement is
   taken for the request it answers, for any profile, any capacities and any number of
   sessions, clicks and messages. *)
THEOREM AcknowledgementsInTurn == Spec => []AcksMatched
<1> USE MqttConstants
<1>1. Init => SessionInv /\ MessagesInv /\ Later /\ AcksInv
  <2> SUFFICES ASSUME Init PROVE SessionInv /\ MessagesInv /\ Later /\ AcksInv
    OBVIOUS
  <2>1. SessionInv /\ Later
    BY DEF Init, SessionInv, Known, Live, Phases, Later
  <2>2. MessagesInv
    BY NothingAsked DEF Init, MessagesInv, WayOK, Live
  <2>3. AcksInv
    <3>1. Domains
      BY DEF Init, Domains
    <3>2. ASSUME NEW s \in Sessions PROVE AcksOK(s)
      <4>1. /\ commands[s] = <<>> /\ initial[s] = {} /\ outgoing[s] = <<>> /\ incoming[s] = <<>>
            /\ awaited[s] = [sub |-> <<>>, unsub |-> <<>>]
        BY DEF Init
      <4> QED
        BY <4>1, NothingAsked DEF AcksOK
    <3> QED
      BY <3>1, <3>2 DEF AcksInv
  <2> QED
    BY <2>1, <2>2, <2>3
<1>2. /\ SessionInv /\ MessagesInv /\ Later /\ AcksInv /\ [Next]_vars
      => (SessionInv /\ MessagesInv /\ Later /\ AcksInv)'
  BY SessionStep, MessagesStep, LaterStep, AcksStep
<1>3. AcksInv => AcksMatched
  <2> SUFFICES ASSUME AcksInv, NEW s \in Sessions
               PROVE  /\ InTurn(awaited[s].sub, incoming[s] \o outgoing[s], "sub")
                      /\ InTurn(Withdrawn(awaited[s].unsub), incoming[s] \o outgoing[s], "unsub")
    BY DEF AcksMatched
  <2>1. PICK subs \in Seq(SUBSET Topics), unsubs \in Seq(Topics) :
          /\ awaited[s] = [sub |-> subs, unsub |-> unsubs]
          /\ Matched(subs, incoming[s], outgoing[s], "sub")
          /\ Matched(Withdrawn(unsubs), incoming[s], outgoing[s], "unsub")
    BY DEF AcksInv, AcksOK
  <2>2. /\ IsSequence(incoming[s]) /\ \A i \in DOMAIN incoming[s] : incoming[s][i].kind \in PacketKinds
        /\ outgoing[s] \in Seq(Requests)
    BY DEF AcksInv, AcksOK
  <2>3. IsSequence(outgoing[s]) /\ \A i \in DOMAIN outgoing[s] : outgoing[s][i].kind \in {"sub", "unsub"}
    <3>1. IsSequence(outgoing[s])
      BY <2>2, TypedSequence
    <3>2. \A i \in DOMAIN outgoing[s] : outgoing[s][i] \in Requests
      BY <2>2
    <3> QED
      BY <3>1, <3>2 DEF Requests
  <2>4. InTurn(subs, incoming[s] \o outgoing[s], "sub")
    BY <2>1, <2>2, <2>3, MatchedInTurn
  <2>5. InTurn(Withdrawn(unsubs), incoming[s] \o outgoing[s], "unsub")
    BY <2>1, <2>2, <2>3, MatchedInTurn
  <2> QED
    BY <2>1, <2>4, <2>5
<1> QED
  BY <1>1, <1>2, <1>3, PTL DEF Spec
=============================================================================
