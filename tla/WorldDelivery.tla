--------------------------- MODULE WorldDelivery ---------------------------
(***************************************************************************)
(* The world speaks to its agents over Moltnet (world-participant.ts): the *)
(* messages among the events of a run are posted one after the other, and  *)
(* the conversations they went to are read back (transcript-export.ts) to  *)
(* tie what was said to the events it was said for.                        *)
(*                                                                         *)
(* A post may be refused, or get no usable answer whether it arrived or    *)
(* not; the first that fails ends the delivery, and a caller may start it  *)
(* again from the first event.  Moltnet is external: it keeps each         *)
(* conversation in the order of arrival, recognises a message it was given *)
(* before or does not, and shows the newest messages of a conversation.    *)
(***************************************************************************)
EXTENDS MachineClient

CONSTANTS
  Events,         \* the events of a run: [id, kind, scope, network, wellFormed]
  NetworkId,      \* options.networkId, or NoNetwork
  NoNetwork,
  Limit,          \* messages a transcript is read to
  MaxDeliveries,  \* bound: deliveries of the run's events that are started
  MaxChatter      \* bound: messages the agents themselves post

\* createEventId numbers the events of a run; no identity reads as none.
ASSUME DeliveryAssumption ==
  /\ Len(Events) \in Nat /\ DOMAIN Events = 1..Len(Events)
  /\ \A i, j \in DOMAIN Events : Events[i].id = Events[j].id => i = j
  /\ \A i \in DOMAIN Events : Events[i].id # "none"
  /\ Limit \in Nat

VARIABLES
  delivery,   \* [at: the next event, results, state, started]
  moltnet,    \* conversation -> the messages it holds, in order of arrival
  chatter     \* messages the agents posted

deliveryVars == <<delivery, moltnet, chatter>>

NoEvent == "none"
Kinds == {"world.message", "world.dm"}
IsWorldMessage(e) == e.kind \in Kinds

\* filter: the messages among the events, in their order.
MessagePlaces == {p \in DOMAIN Events : IsWorldMessage(Events[p])}
WorldMessages == [i \in 1..Cardinality(MessagePlaces) |-> Events[Ordered(MessagePlaces)[i]]]

\* requestFromWorldEvent: where an event is posted to, and by which network's
\* actor; one whose scope is not a room's or an agent's, or a direct message
\* without a network, cannot be posted.
TargetOf(e) == [kind |-> IF e.kind = "world.dm" THEN "dm" ELSE "room", id |-> e.scope]

Posts(e) ==
  /\ IsWorldMessage(e) /\ e.wellFormed
  /\ e.kind = "world.dm" => NetworkId # NoNetwork

RequestFor(e) ==
  [target |-> TargetOf(e), event |-> e.id,
   network |-> IF e.kind = "world.dm" THEN NetworkId ELSE e.network]

Conversations == {TargetOf(Events[i]) : i \in DOMAIN Events}

------------------------------------------------------------------------------
\* sendWorldEventsToMoltnet begins.
StartDelivery ==
  /\ delivery.state \in {"idle", "failed"}
  /\ delivery.started < MaxDeliveries
  /\ delivery' = [at |-> 1, results |-> <<>>, state |-> "sending",
                  started |-> delivery.started + 1]
  /\ UNCHANGED <<moltnet, chatter>>

\* What Moltnet holds after a message came.
Stored(request) ==
  LET c == request.target
      message == [event |-> request.event]
      known == \E i \in DOMAIN moltnet[c] : moltnet[c][i] = message
      added == [moltnet EXCEPT ![c] = Append(@, message)]
  IN  IF known THEN {moltnet, added} ELSE {added}

\* sendWorldEventToMoltnet: an event of another kind is passed over.
Skip ==
  /\ delivery.state = "sending" /\ delivery.at <= Len(Events)
  /\ ~IsWorldMessage(Events[delivery.at])
  /\ delivery' = [delivery EXCEPT !.at = @ + 1]
  /\ UNCHANGED <<moltnet, chatter>>

\* The post arrives and its answer is of the expected shape.
Accepted ==
  /\ delivery.state = "sending" /\ delivery.at <= Len(Events)
  /\ LET e == Events[delivery.at]
     IN  /\ Posts(e)
         /\ moltnet' \in Stored(RequestFor(e))
         /\ delivery' = [delivery EXCEPT
              !.at = @ + 1,
              !.results = Append(@, [event |-> e.id, request |-> RequestFor(e)])]
  /\ UNCHANGED chatter

\* It cannot be built, is refused, times out, or its answer cannot be read; in
\* the last two cases it may have arrived.
FaultyFailed ==
  /\ delivery.state = "sending" /\ delivery.at <= Len(Events)
  /\ IsWorldMessage(Events[delivery.at])
  /\ delivery' = [delivery EXCEPT !.at = @ + 1]
  /\ UNCHANGED <<moltnet, chatter>>

Failed ==
  /\ delivery.state = "sending" /\ delivery.at <= Len(Events)
  /\ LET e == Events[delivery.at]
     IN  /\ IsWorldMessage(e)
         /\ moltnet' \in {moltnet} \cup (IF Posts(e) THEN Stored(RequestFor(e)) ELSE {})
  /\ delivery' = [delivery EXCEPT !.state = "failed"]
  /\ UNCHANGED chatter

Delivered ==
  /\ delivery.state = "sending" /\ delivery.at > Len(Events)
  /\ delivery' = [delivery EXCEPT !.state = "delivered"]
  /\ UNCHANGED <<moltnet, chatter>>

\* An agent says something of its own: a message without a world event.
Speak(c) ==
  /\ chatter < MaxChatter
  /\ chatter' = chatter + 1
  /\ moltnet' = [moltnet EXCEPT ![c] = Append(@, [event |-> NoEvent])]
  /\ UNCHANGED delivery

\* transcriptTargets: each conversation an event went to, once.
Targets == {RequestFor(WorldMessages[i]).target : i \in DOMAIN WorldMessages}

Newest(s) == SubSeq(s, IF Len(s) > Limit THEN Len(s) - Limit + 1 ELSE 1, Len(s))

\* readWorldTranscriptFromMoltnet: the messages that name a world event, of one
\* page of each conversation; of what exportMoltnetTranscript keeps,
\* extractSimfileEventIds takes the same.
Transcript ==
  UNION {{[event |-> m.event, target |-> c] :
           m \in {x \in ToSet(Newest(moltnet[c])) : x.event # NoEvent}} : c \in Targets}

DeliveryInit ==
  /\ delivery = [at |-> 1, results |-> <<>>, state |-> "idle", started |-> 0]
  /\ moltnet = [c \in Conversations |-> <<>>]
  /\ chatter = 0

DeliveryNext ==
  \/ StartDelivery \/ Skip \/ Accepted \/ Failed \/ Delivered
  \/ \E c \in Conversations : Speak(c)

------------------------------------------------------------------------------
\* What was delivered is what the run said, in its order and nothing left out:
\* the results are the messages among its events from the first, each lies in
\* the conversation of its own target, and none lies there before every earlier
\* one does, however often a delivery failed and was started again.  A message
\* read back under a world event is one the event was posted as, and a page
\* that holds a whole conversation leaves none out.
DeliveryHonest ==
  LET message(i) == WorldMessages[i]
      lies(e) == \E k \in DOMAIN moltnet[TargetOf(e)] :
                   moltnet[TargetOf(e)][k].event = e.id
      results == delivery.results
  IN  /\ \A i \in DOMAIN results :
           /\ results[i].event = message(i).id
           /\ lies(message(i))
      /\ delivery.state = "delivered" => Len(results) = Len(WorldMessages)
      /\ \A i, j \in DOMAIN WorldMessages :
           i < j /\ lies(message(j)) => lies(message(i))
      /\ \A entry \in Transcript : \E i \in DOMAIN WorldMessages :
           message(i).id = entry.event /\ TargetOf(message(i)) = entry.target
      /\ \A i \in DOMAIN results :
           Len(moltnet[TargetOf(message(i))]) <= Limit =>
             [event |-> message(i).id, target |-> TargetOf(message(i))] \in Transcript
------------------------------------------------------------------------------
(* The world's posts and the client of the machine, side by side: neither  *)
(* waits for the other.                                                    *)
MessagesInit == MachineInit /\ DeliveryInit
MessagesNext ==
  \/ MachineNext /\ UNCHANGED deliveryVars
  \/ DeliveryNext /\ UNCHANGED machineVars
MessagesSpec == MessagesInit /\ [][MessagesNext]_<<machineVars, deliveryVars>>

(* What world and machine tell each other over Moltnet: client.ts answers  *)
(* every caller with its own answer, once, and world-participant.ts posts  *)
(* what the run said, in its order.                                        *)
MessagesHonest == MachineHonest /\ DeliveryHonest
==============================================================================
