----------------------------- MODULE MqttSession -----------------------------
(***************************************************************************)
(* A subscription of the MQTT workbench: the view (ramag-tool-mqtt), the   *)
(* driver's loop on a thread of its own (ramag-infra-mqtt) and the broker. *)
(*                                                                         *)
(* View and loop share four channels and a flag per session: messages,     *)
(* whose sender waits while the view is behind, statuses, which are lost   *)
(* when the channel is full, commands, and the cancellation.  What comes   *)
(* back is applied if it is of the latest session and of the profile the   *)
(* session was started with.                                               *)
(***************************************************************************)
EXTENDS Naturals, Sequences, FiniteSets, SequencesExt

CONSTANTS
  Topics,         \* filters of the profile
  StatusRoom,     \* capacity of the channels of statuses and commands
  MessageRoom,    \* capacity of the channel of messages
  RequestRoom,    \* EVENT_LOOP_CAPACITY
  MaxSessions,    \* bounds of the model: subscriptions the view starts,
  MaxClicks,      \* clicks on rows and protocols,
  MaxMessages     \* messages the broker publishes to a session

ASSUME MqttConstants ==
  /\ IsFiniteSet(Topics) /\ Topics # {}
  /\ StatusRoom \in Nat /\ Cardinality(Topics) <= StatusRoom
  /\ MessageRoom \in Nat \ {0}
  /\ RequestRoom \in Nat \ {0}
  /\ {MaxSessions, MaxClicks, MaxMessages} \subseteq Nat

Sessions == 1..MaxSessions
RowStates == {"Pending", "Subscribing", "Subscribed", "Unsubscribing", "Rejected"}

VARIABLES
  current,   \* profile_context_id is the one the latest session was started in
  saving,    \* a save or delete of the profile is under way
  request,   \* subscription_request_id: the latest session, 0 before the first
  running, stopping,
  row,       \* subscription_statuses
  clicked,   \* clicks so far on rows of a running subscription and on protocols
  phase,     \* phase[s]: where the loop of session s stands
  initial,   \* filters it was started with
  cancelled,
  commands, statuses, messages,   \* the channels
  awaited,     \* awaited[s].sub, .unsub: pending_subscribes, pending_unsubscribes
  outgoing,    \* requests in the client's channel
  incoming,    \* the broker's packets, in order
  subscribed,  \* filters the broker serves the session
  published    \* messages it has sent to it

viewVars == <<current, saving, request, running, stopping, row, clicked>>
wireVars == <<awaited, outgoing, incoming, subscribed, published>>
vars == <<viewVars, initial, phase, cancelled, commands, statuses, messages, wireVars>>

Live(s) == phase[s] \in {"starting", "select", "deliver", "closing"}

(* Answers of session s still count *)
Heard(s) == s = request /\ current

Busy == saving \/ running \/ stopping

Init ==
  /\ current = TRUE
  /\ saving = FALSE
  /\ request = 0
  /\ running = FALSE
  /\ stopping = FALSE
  /\ row = [f \in Topics |-> "Pending"]
  /\ clicked = 0
  /\ phase = [s \in Sessions |-> "none"]
  /\ initial = [s \in Sessions |-> {}]
  /\ cancelled = [s \in Sessions |-> FALSE]
  /\ commands = [s \in Sessions |-> <<>>]
  /\ statuses = [s \in Sessions |-> <<>>]
  /\ messages = [s \in Sessions |-> <<>>]
  /\ awaited = [s \in Sessions |-> [sub |-> <<>>, unsub |-> <<>>]]
  /\ outgoing = [s \in Sessions |-> <<>>]
  /\ incoming = [s \in Sessions |-> <<>>]
  /\ subscribed = [s \in Sessions |-> {}]
  /\ published = [s \in Sessions |-> 0]

-----------------------------------------------------------------------------
(* The view *)

SetRows(fs, state) == row' = [f \in Topics |-> IF f \in fs THEN state ELSE row[f]]

Kept(channel) == [s \in Sessions |-> IF Live(s) THEN channel[s] ELSE <<>>]

(* All topics by the button of the section, or one by its row's button; also while the
   profile is being saved.  What an earlier session left in its channels does not count
   any more, and goes. *)
StartSubscription(fs) ==
  /\ ~ running /\ ~ stopping
  /\ request < MaxSessions
  /\ \/ fs = Topics
     \/ \E f \in Topics : fs = {f} /\ row[f] \in {"Pending", "Rejected"}
  /\ request' = request + 1
  /\ running' = TRUE
  /\ SetRows(fs, "Subscribing")
  /\ phase'   = [phase EXCEPT ![request + 1] = "starting"]
  /\ current' = TRUE
  /\ initial' = [initial EXCEPT ![request + 1] = fs]
  /\ statuses' = Kept(statuses)
  /\ messages' = Kept(messages)
  /\ UNCHANGED <<saving, stopping, clicked, cancelled, commands, wireVars>>

(* try_send on the command channel, which is closed once the loop has ended *)
Send(kind, f, state) ==
  IF Live(request) /\ Len(commands[request]) < StatusRoom
  THEN /\ commands' = [commands EXCEPT ![request] = Append(@, [kind |-> kind, of |-> f])]
       /\ SetRows({f}, state)
  ELSE SetRows({f}, "Rejected") /\ UNCHANGED commands

Click == clicked < MaxClicks /\ clicked' = clicked + 1

(* The row alone decides what is asked: a click on one that shows a question under way does
   nothing. *)
Toggle(f) ==
  /\ running /\ ~ stopping
  /\ Click
  /\ \/ row[f] \in {"Pending", "Rejected"} /\ Send("sub", f, "Subscribing")
     \/ row[f] = "Subscribed" /\ Send("unsub", f, "Unsubscribing")
  /\ UNCHANGED <<current, saving, request, running, stopping, initial, phase, cancelled,
                 statuses, messages, wireVars>>

StopSubscription ==
  IF running THEN stopping' = TRUE /\ cancelled' = [cancelled EXCEPT ![request] = TRUE]
             ELSE UNCHANGED <<stopping, cancelled>>

Stop ==
  /\ running /\ ~ stopping
  /\ StopSubscription
  /\ UNCHANGED <<current, saving, request, running, row, clicked, initial, phase, commands, statuses,
                 messages, wireVars>>

(* Every row starts over when the topics are edited, which a running subscription forbids,
   and when the protocol is chosen, which it does not. *)
ChooseProtocol ==
  /\ Click
  /\ SetRows(Topics, "Pending")
  /\ UNCHANGED <<current, saving, request, running, stopping, initial, phase, cancelled,
                 commands, statuses, messages, wireVars>>

TakeProfile_ClearsAtOnce ==
  /\ current' = FALSE
  /\ running' = FALSE
  /\ stopping' = FALSE
  /\ cancelled' = IF running THEN [cancelled EXCEPT ![request] = TRUE] ELSE cancelled
  /\ SetRows(Topics, "Pending")

(* set_form_from_profile, reset_form: stop, reset the rows, and no answer to what was
   asked before counts any more *)
TakeProfile ==
  /\ current' = FALSE
  /\ StopSubscription
  /\ UNCHANGED running
  /\ SetRows(Topics, "Pending")

(* Another profile is selected or a new one begun. *)
Select ==
  /\ ~ Busy
  /\ TakeProfile
  /\ UNCHANGED <<saving, request, clicked, initial, phase, commands, statuses, messages, wireVars>>

(* save_profile, delete_profile: refused while busy, answered later *)
Save ==
  /\ ~ Busy
  /\ saving' = TRUE
  /\ UNCHANGED <<current, request, running, stopping, row, clicked, initial, phase, cancelled, commands,
                 statuses, messages, wireVars>>

(* The answer: the profile is taken up, or the form stays after an error. *)
Saved ==
  /\ saving
  /\ saving' = FALSE
  /\ TakeProfile \/ UNCHANGED <<current, stopping, running, row, cancelled>>
  /\ UNCHANGED <<request, clicked, initial, phase, commands, statuses, messages, wireVars>>

(* The tasks of a session in the view *)
ReceiveStatus(s) ==
  /\ statuses[s] # <<>>
  /\ statuses' = [statuses EXCEPT ![s] = Tail(@)]
  /\ LET st == Head(statuses[s])
     IN IF Heard(s) THEN SetRows({st.of}, st.state) ELSE UNCHANGED row
  /\ UNCHANGED <<current, saving, request, running, stopping, clicked, initial, phase, cancelled,
                 commands, messages, wireVars>>

ReceiveMessage(s) ==
  /\ messages[s] # <<>>
  /\ messages' = [messages EXCEPT ![s] = Tail(@)]
  /\ UNCHANGED <<viewVars, initial, phase, cancelled, commands, statuses, wireVars>>

(* The task that waits for the loop's result, and with it what only it and the loop held *)
SubscriptionEnded(s) ==
  /\ phase[s] \in {"ended", "failed"}
  /\ phase' = [phase EXCEPT ![s] = "noted"]
  /\ initial' = [initial EXCEPT ![s] = {}]
  /\ cancelled' = [cancelled EXCEPT ![s] = FALSE]
  /\ IF Heard(s)
       THEN /\ running'  = FALSE
            /\ stopping' = FALSE
            /\ SetRows(initial[s], IF phase[s] = "failed" THEN "Rejected" ELSE "Pending")
       ELSE UNCHANGED <<running, stopping, row>>
  /\ UNCHANGED <<current, saving, request, clicked, commands, statuses, messages, wireVars>>

-----------------------------------------------------------------------------
(* The loop of a session *)

Goto(s, p) == phase' = [phase EXCEPT ![s] = p]

(* The head of the loop looks at the flag before it waits for a command or a packet. *)
Again(s) == Goto(s, IF cancelled[s] THEN "closing" ELSE "select")

(* The client and the receiving end of the commands are dropped with the loop. *)
End(s, error) ==
  /\ phase'      = [phase EXCEPT ![s] = IF error THEN "failed" ELSE "ended"]
  /\ commands'   = [commands EXCEPT ![s] = <<>>]
  /\ awaited'    = [awaited EXCEPT ![s] = [sub |-> <<>>, unsub |-> <<>>]]
  /\ outgoing'   = [outgoing EXCEPT ![s] = <<>>]
  /\ incoming'   = [incoming EXCEPT ![s] = <<>>]
  /\ subscribed' = [subscribed EXCEPT ![s] = {}]
  /\ published'  = [published EXCEPT ![s] = 0]

(* The status sink: try_send, and nobody looks at its answer *)
Emitted(s, sts) ==
  [statuses EXCEPT ![s] = LET all == @ \o sts
                          IN IF Len(all) <= StatusRoom THEN all ELSE SubSeq(all, 1, StatusRoom)]

Status(f, state) == [of |-> f, state |-> state]

(* The client cannot be made, or it refuses the SUBSCRIBE for the initial filters, or
   takes it. *)
Begin(s) ==
  /\ phase[s] = "starting"
  /\ \/ /\ End(s, TRUE)
        /\ LET fs == SetToSeq(initial[s])
               refused == Emitted(s, [i \in DOMAIN fs |-> Status(fs[i], "Rejected")])
           IN statuses' \in {statuses, refused}
     \/ /\ Again(s)
        /\ outgoing' = [outgoing EXCEPT ![s] = <<[kind |-> "sub", of |-> initial[s]]>>]
        /\ awaited'  = [awaited EXCEPT ![s].sub = <<initial[s]>>]
        /\ UNCHANGED <<commands, statuses, incoming, subscribed, published>>
  /\ UNCHANGED <<viewVars, initial, cancelled, messages>>

Close(s) ==
  /\ phase[s] = "closing"
  /\ End(s, FALSE)
  /\ UNCHANGED <<viewVars, initial, cancelled, statuses, messages>>

Await(s, c) ==
  awaited' = IF c.kind = "sub" THEN [awaited EXCEPT ![s].sub = Append(@, {c.of})]
                               ELSE [awaited EXCEPT ![s].unsub = Append(@, c.of)]

Request(s, c) ==
  outgoing' = [outgoing EXCEPT ![s] = Append(@, [kind |-> c.kind, of |-> {c.of}])]

HandleCommand_AwaitsFirst(s) ==
  LET c == Head(commands[s])
  IN /\ phase[s] = "select" /\ commands[s] # <<>>
     /\ commands' = [commands EXCEPT ![s] = Tail(@)]
     /\ Await(s, c)
     /\ \/ Len(outgoing[s]) < RequestRoom /\ Request(s, c) /\ UNCHANGED statuses
        \/ statuses' = Emitted(s, <<Status(c.of, "Rejected")>>) /\ UNCHANGED outgoing
     /\ Again(s)
     /\ UNCHANGED <<viewVars, initial, cancelled, messages, incoming, subscribed, published>>

(* The client takes a request, or refuses it: its channel is full, the filter or an
   option is not allowed.  A command is awaited only if its request was taken. *)
HandleCommand(s) ==
  LET c == Head(commands[s])
  IN /\ phase[s] = "select" /\ commands[s] # <<>>
     /\ commands' = [commands EXCEPT ![s] = Tail(@)]
     /\ \/ Len(outgoing[s]) < RequestRoom /\ Request(s, c) /\ Await(s, c) /\ UNCHANGED statuses
        \/ statuses' = Emitted(s, <<Status(c.of, "Rejected")>>) /\ UNCHANGED <<outgoing, awaited>>
     /\ Again(s)
     /\ UNCHANGED <<viewVars, initial, cancelled, messages, incoming, subscribed, published>>

(* filters.iter().zip(return_codes) *)
Zipped(fs, codes) ==
  [i \in DOMAIN fs \cap DOMAIN codes |-> Status(fs[i], IF codes[i] THEN "Subscribed" ELSE "Rejected")]

HandleAck_Newest(s) ==
  /\ phase[s] = "select" /\ incoming[s] # <<>>
  /\ LET p == Head(incoming[s])
     IN \/ /\ p.kind = "suback"
           /\ statuses' = Emitted(s, Zipped(SetToSeq(Last(awaited[s].sub)), p.codes))
           /\ awaited' = [awaited EXCEPT ![s].sub = Front(@)]
        \/ /\ p.kind = "unsuback"
           /\ statuses' = Emitted(s, <<Status(Last(awaited[s].unsub),
                                         IF Head(p.codes) THEN "Pending" ELSE "Rejected")>>)
           /\ awaited' = [awaited EXCEPT ![s].unsub = Front(@)]
  /\ incoming' = [incoming EXCEPT ![s] = Tail(@)]
  /\ Again(s)
  /\ UNCHANGED <<viewVars, initial, cancelled, commands, messages, outgoing, subscribed, published>>

(* A SUBACK is for the filters of the oldest SUBSCRIBE, an UNSUBACK for the filter of
   the oldest UNSUBSCRIBE. *)
HandleAck(s) ==
  /\ phase[s] = "select" /\ incoming[s] # <<>>
  /\ LET p == Head(incoming[s])
     IN \/ /\ p.kind = "suback"
           /\ statuses' = Emitted(s, Zipped(SetToSeq(Head(awaited[s].sub)), p.codes))
           /\ awaited' = [awaited EXCEPT ![s].sub = Tail(@)]
        \/ /\ p.kind = "unsuback"
           /\ statuses' = Emitted(s, <<Status(Head(awaited[s].unsub),
                                         IF Head(p.codes) THEN "Pending" ELSE "Rejected")>>)
           /\ awaited' = [awaited EXCEPT ![s].unsub = Tail(@)]
  /\ incoming' = [incoming EXCEPT ![s] = Tail(@)]
  /\ Again(s)
  /\ UNCHANGED <<viewVars, initial, cancelled, commands, messages, outgoing, subscribed, published>>

(* A message that cannot be decoded ends the session. *)
HandlePublish(s) ==
  /\ phase[s] = "select" /\ incoming[s] # <<>>
  /\ Head(incoming[s]).kind = "publish"
  /\ \/ Goto(s, "deliver") /\ UNCHANGED <<commands, wireVars>>
     \/ End(s, TRUE)
  /\ UNCHANGED <<viewVars, initial, cancelled, statuses, messages>>

Deliver_Drops(s) ==
  /\ phase[s] = "deliver"
  /\ IF cancelled[s]
       THEN End(s, FALSE) /\ UNCHANGED messages
       ELSE /\ Again(s)
            /\ messages' = IF Len(messages[s]) < MessageRoom
                           THEN [messages EXCEPT ![s] = Append(@, Head(incoming[s]).number)]
                           ELSE messages
            /\ incoming' = [incoming EXCEPT ![s] = Tail(@)]
            /\ UNCHANGED <<commands, awaited, outgoing, subscribed, published>>
  /\ UNCHANGED <<viewVars, initial, cancelled, statuses>>

(* deliver_subscription_message holds the loop until the channel has room. *)
Deliver(s) ==
  /\ phase[s] = "deliver"
  /\ IF cancelled[s]
       THEN End(s, FALSE) /\ UNCHANGED messages
       ELSE /\ Len(messages[s]) < MessageRoom
            /\ Again(s)
            /\ messages' = [messages EXCEPT ![s] = Append(@, Head(incoming[s]).number)]
            /\ incoming' = [incoming EXCEPT ![s] = Tail(@)]
            /\ UNCHANGED <<commands, awaited, outgoing, subscribed, published>>
  /\ UNCHANGED <<viewVars, initial, cancelled, statuses>>

Disconnect_Never(s) == FALSE /\ UNCHANGED vars

(* The cancellation task sends DISCONNECT, which ends a poll that waits. *)
Disconnect(s) ==
  /\ phase[s] = "select" /\ cancelled[s]
  /\ Again(s)
  /\ UNCHANGED <<viewVars, initial, cancelled, commands, statuses, messages, wireVars>>

(* The connection is lost or refused, also by the broker's answer to DISCONNECT. *)
ConnectionLost(s) ==
  /\ phase[s] = "select"
  /\ End(s, ~ cancelled[s])
  /\ UNCHANGED <<viewVars, initial, cancelled, statuses, messages>>

-----------------------------------------------------------------------------
AckOf(kind) == IF kind = "sub" THEN "suback" ELSE "unsuback"

(* The broker takes requests, which are sent while the loop polls, and answers each
   kind in its order; it may refuse any.  The packet identifier tells which request an
   answer is `of`; the loop does not look at it. *)
Answer(s) ==
  /\ phase[s] = "select" /\ outgoing[s] # <<>>
  /\ LET q == Head(outgoing[s])
         fs == SetToSeq(q.of)
     IN \E ok \in SUBSET q.of :
          /\ incoming' = [incoming EXCEPT ![s] =
                            Append(@, [kind |-> AckOf(q.kind), of |-> q.of,
                                       codes |-> [i \in DOMAIN fs |-> fs[i] \in ok]])]
          /\ subscribed' = [subscribed EXCEPT ![s] = IF q.kind = "sub" THEN @ \cup ok ELSE @ \ ok]
  /\ outgoing' = [outgoing EXCEPT ![s] = Tail(@)]
  /\ UNCHANGED <<viewVars, initial, phase, cancelled, commands, statuses, messages, awaited, published>>

Publish(s) ==
  /\ Live(s) /\ subscribed[s] # {}
  /\ published[s] < MaxMessages
  /\ published' = [published EXCEPT ![s] = @ + 1]
  /\ incoming'  = [incoming EXCEPT ![s] = Append(@, [kind |-> "publish", number |-> published[s] + 1])]
  /\ UNCHANGED <<viewVars, initial, phase, cancelled, commands, statuses, messages, awaited, outgoing,
                 subscribed>>

-----------------------------------------------------------------------------
View ==
  \/ \E fs \in {Topics} \cup {{f} : f \in Topics} : StartSubscription(fs)
  \/ \E f \in Topics : Toggle(f)
  \/ Stop \/ ChooseProtocol \/ Select \/ Save \/ Saved

Tasks(s) == ReceiveStatus(s) \/ ReceiveMessage(s) \/ SubscriptionEnded(s)

Loop(s) ==
  Begin(s) \/ Close(s) \/ HandleCommand(s) \/ HandleAck(s) \/ HandlePublish(s) \/ Deliver(s)
    \/ Disconnect(s)

Next == View \/ \E s \in Sessions : Tasks(s) \/ Loop(s) \/ ConnectionLost(s) \/ Answer(s) \/ Publish(s)

Spec == Init /\ [][Next]_vars

(* The driver's thread does not stop; nothing is asked of the view or the broker. *)
FairSpec == Spec /\ \A s \in Sessions : WF_vars(Loop(s))

-----------------------------------------------------------------------------
(* The packets waiting that are messages *)
Publishes(packets) == {i \in DOMAIN packets : packets[i].kind = "publish"}

(* Of the messages 1..count the view has taken the first `taken`, the channel holds the
   next and the packets carry the others, all in order. *)
InOrder(channel, packets, count) ==
  \E taken \in 0..(count - Len(channel)) :
    /\ \A i \in DOMAIN channel : channel[i] = taken + i
    /\ {packets[i].number : i \in Publishes(packets)} = (taken + Len(channel) + 1)..count
    /\ \A i, j \in Publishes(packets) : i < j => packets[i].number < packets[j].number

(* While a session lives no message is lost or overtaken between broker and view: what is
   on its way are the last ones published, in order. *)
NoMessageLost ==
  \A s \in Sessions : Live(s) => InOrder(messages[s], incoming[s], published[s])

(* The requests of a kind that are `asked` are those `on` the way, in this order. *)
InTurn(asked, on, kind) ==
  \E at \in [DOMAIN asked -> {k \in DOMAIN on : on[k].kind \in {kind, AckOf(kind)}}] :
    /\ \A i, j \in DOMAIN asked : i < j => at[i] < at[j]
    /\ \A i \in DOMAIN asked : on[at[i]].of = asked[i]
    /\ \A k \in DOMAIN on : on[k].kind \in {kind, AckOf(kind)} => \E i \in DOMAIN asked : at[i] = k

(* The filters of the UNSUBSCRIBEs waited for, as requests name them *)
Withdrawn(unsubs) == [i \in DOMAIN unsubs |-> {unsubs[i]}]

(* An acknowledgement is taken for the request it answers, although the loop goes by order
   alone: what it waits for is what has been asked and not been heard of, from the answers
   that wait for the loop to the requests that wait for the broker, whatever was refused,
   asked twice or overtaken by messages. *)
AcksMatched ==
  \A s \in Sessions :
    /\ InTurn(awaited[s].sub, incoming[s] \o outgoing[s], "sub")
    /\ InTurn(Withdrawn(awaited[s].unsub), incoming[s] \o outgoing[s], "unsub")

(* A row's label says Subscribed, and docs/04-ui-acceptance-standard.md:88 that what was
   cancelled or failed is not shown as a success: while a subscription runs, such a row is
   of a filter the broker serves. *)
RowsTell ==
  running /\ Heard(request) /\ Live(request) =>
    \A f \in Topics : row[f] = "Subscribed" => f \in subscribed[request]

(* There is one connection to the broker at a time, whatever is started, stopped and
   saved. *)
OneSession == \A s, t \in Sessions : Live(s) /\ Live(t) => s = t

(* A cancelled session ends, also when the broker is silent or the view is behind. *)
StopEnds == \A s \in Sessions : cancelled[s] ~> ~ Live(s)

(* profile_state.rs:686 says that taking up a profile clears what was under way for the
   old one: a running subscription can still be seen to end, or the view stays busy. *)
EndIsSeen == running => Heard(request)
=============================================================================
