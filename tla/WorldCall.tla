------------------------------ MODULE WorldCall ------------------------------
(***************************************************************************)
(* A call of an agent to its world, from the wire to the runtime and back: *)
(* the JSON server (jsonServer.ts, nodeJsonListener.ts), the tools of an   *)
(* MCP session (mcp.ts, mcpSchemas.ts, nodeMcpBoundary.ts), the handler    *)
(* both lead to (handler.ts), and the three operations an agent cannot     *)
(* simply repeat: the claim of a decision (decisionClaim.ts), an act with  *)
(* its envelope (actEnvelope.ts, requestLedger.ts), and a read.            *)
(*                                                                         *)
(* The handler runs without interruption, so whatever cuts a call short    *)
(* does so before it, and nothing happened, or after it, and what happened *)
(* stays although nobody is told.  How McpListener's requests and sessions *)
(* share the pool is modelled there; here a session is what it remembers.  *)
(* Which checks an act has to pass is in WorldAuthority; here it needs a   *)
(* decision that is active.                                                *)
(***************************************************************************)
EXTENDS Integers, FiniteSets, Sequences

CONSTANTS
  Agents,       \* agents, each with the bearer of its principal
  ToolUsers,     \* those that call tools of an MCP session too
  ClaimEnabled,  \* the host gave the handler the claim capability
  Messages,      \* caller -> what it may send: [operation, fields, id, wake, ...
                 \*   request, body, writing]
  NestingDepth, MaxBytes, \* the codec's limits
  Slots,         \* bound: calls under way at a time
  MaxMinted,     \* bound: decisions minted
  MaxMishaps     \* bound: times a party of the host fails

ASSUME CallersAssumption == ToolUsers \subseteq Agents
ASSUME MessagesAssumption ==
  \A p \in Agents : \A message \in Messages[p] :
    {"operation", "request", "fields"} \subseteq DOMAIN message

VARIABLES
  decisions,   \* token -> [principal, state], tokens numbered as minted
  claimed,     \* the request and wake identities the claim authority has used
  applied,     \* the request ledger: request -> [principal, body, receipt]
  gate,        \* [active: claims are taken, closed: acts are not]
  session,     \* caller -> what its MCP session remembers
  calls,       \* slot -> the call under way, or Free
  known,       \* caller -> the tokens and receipts it was told of
  lost,        \* tokens whose only answer or session is gone
  recorded,    \* what the boundary observer was given
  mishaps      \* how often a party of the host failed

callVars == <<decisions, claimed, applied, gate, session, calls, known, lost,
              recorded, mishaps>>

Free == [phase |-> "free"]
NoToken == 0
NoSession == [open |-> FALSE, authority |-> NoToken]
NoAnswer == [status |-> 0, kind |-> "none", tokens |-> {}, receipt |-> 0]

Tokens == DOMAIN decisions
ActiveOf(p) == {t \in Tokens : decisions[t].principal = p /\ decisions[t].state = "active"}

------------------------------------------------------------------------------
(* Reading a body. *)

\* JsonScanner: one value, no key twice in an object, not too deep.
Scans(writing) ==
  writing.wellFormed /\ writing.keysOnce /\ writing.depth <= NestingDepth

\* parseWorldJson: what the bytes amount to.
ParseWorldJson(writing) ==
  IF writing.bytes > MaxBytes THEN "large"
  ELSE IF writing.bytes = 0 \/ ~Scans(writing) THEN "invalid" ELSE "value"

\* The fields an operation takes and those it needs.
Needs(operation) ==
  CASE operation = "claim" -> {"request_id", "wake_id"}
    [] operation = "act" -> {"decision_token", "request_id", "affordance", "target", "input"}
    [] operation = "ledger" -> {"decision_token", "version"}
    [] operation = "observe" -> {"decision_token", "sense"}
    [] OTHER -> {"decision_token"}

Allows(operation) ==
  Needs(operation) \cup
    IF operation = "ledger" THEN {"limit", "result_after"} ELSE {}

WellFormed(message) ==
  Needs(message.operation) \subseteq message.fields
  /\ message.fields \subseteq Allows(message.operation)

\* encodeWorldActEnvelope: the canonical bytes of an act, which forget the
\* order and the spacing it was written in.
Envelope(message) == [request |-> message.request, body |-> message.body]

------------------------------------------------------------------------------
(* The runtime's side.  An outcome is a status with what it changes. *)

\* claim: neither identity used before, and no decision of the principal active.
ClaimGranted(p, message) ==
  /\ gate.active
  /\ [use |-> "request", id |-> message.id] \notin claimed
  /\ [use |-> "wake", id |-> message.wake] \notin claimed
  /\ ActiveOf(p) = {}

\* Fault: another principal's act is answered with its receipt.
FaultyReplays(p, message) ==
  /\ message.request \in DOMAIN applied
  /\ applied[message.request].body = Envelope(message).body

\* beginClaim: the same bytes from the same principal get the same receipt.
Replays(p, message) ==
  /\ message.request \in DOMAIN applied
  /\ applied[message.request].principal = p
  /\ applied[message.request].body = Envelope(message).body

Conflicts(p, message) == message.request \in DOMAIN applied /\ ~Replays(p, message)

\* The decision an act is made with: active, and the principal's own.
MayAct(p, token) == token \in ActiveOf(p)

\* A read needs a decision of the principal's that has not run out.
MayRead(p, token) ==
  /\ token \in Tokens /\ decisions[token].principal = p
  /\ decisions[token].state \in {"active", "consumed"}

Error(status) == [NoAnswer EXCEPT !.status = status, !.kind = "error"]
Refused == [NoAnswer EXCEPT !.status = 200, !.kind = "refused"]

\* What invoke answers: it throws, or the world's answer, a refusal included.
Invoked(p, message, token) ==
  IF ~WellFormed(message) THEN Error(400)
  ELSE CASE message.operation = "claim" ->
              IF ClaimGranted(p, message)
              THEN [NoAnswer EXCEPT !.status = 200, !.kind = "token",
                                   !.tokens = {Cardinality(Tokens) + 1}]
              ELSE Error(403)
         [] message.operation = "act" ->
              IF Replays(p, message)
              THEN [NoAnswer EXCEPT !.status = 200, !.kind = "receipt",
                                   !.receipt = applied[message.request].receipt]
              ELSE IF gate.closed \/ Conflicts(p, message) \/ ~MayAct(p, token) THEN Refused
              ELSE [NoAnswer EXCEPT !.status = 200, !.kind = "receipt",
                                   !.receipt = Cardinality(DOMAIN applied) + 1]
         [] OTHER -> IF MayRead(p, token)
                     THEN [NoAnswer EXCEPT !.status = 200, !.kind = "read"]
                     ELSE Error(403)

\* What invoke did, whatever becomes of its answer.
Changes(p, message, token, answer) ==
  IF answer.kind = "token"
  THEN /\ Cardinality(Tokens) < MaxMinted
       /\ decisions' = [t \in Tokens \cup answer.tokens |->
            IF t \in Tokens THEN decisions[t] ELSE [principal |-> p, state |-> "active"]]
       /\ claimed' = claimed \cup {[use |-> "request", id |-> message.id],
                                   [use |-> "wake", id |-> message.wake]}
       /\ UNCHANGED applied
  ELSE IF answer.kind = "receipt" /\ ~Replays(p, message)
  THEN /\ decisions' = [decisions EXCEPT ![token].state = "consumed"]
       /\ applied' = [r \in DOMAIN applied \cup {message.request} |->
            IF r \in DOMAIN applied THEN applied[r]
            ELSE [principal |-> p, body |-> Envelope(message).body,
                  receipt |-> answer.receipt]]
       /\ UNCHANGED claimed
  ELSE UNCHANGED <<decisions, claimed, applied>>

------------------------------------------------------------------------------
(* The handler. *)

Offered ==
  {"status", "capabilities", "observe", "affordances", "act", "ledger"} \cup
    (IF ClaimEnabled THEN {"claim"} ELSE {})

\* What handle refuses before the observer and the runtime are asked.
TurnedAway(message, mishap) ==
  LET parsed == ParseWorldJson(message.writing)
  IN IF message.operation \notin Offered THEN Error(404)
     ELSE IF mishap = "resolver" THEN Error(500)
     ELSE IF mishap = "stranger" THEN Error(401)
     ELSE IF parsed = "large" THEN Error(413)
     ELSE IF parsed = "invalid" THEN Error(400)
     ELSE IF mishap = "begin" THEN Error(500)
     ELSE NoAnswer

\* Fault: the observer is given the answer to a claim as it is.
FaultyObserved(p, message, answer) ==
  [principal |-> p, operation |-> message.operation, request |-> message.request,
   status |-> answer.status, tokens |-> answer.tokens]

\* What the observer is given of a call: the request without its token, and
\* instead of a claim's answer only that there was one.
Observed(p, message, answer) ==
  [principal |-> p, operation |-> message.operation, request |-> message.request,
   status |-> answer.status, tokens |-> {}]

\* Bound: the model keeps the entries of calls that did what they asked for.
Kept(entry, done) == IF done.kind \in {"token", "receipt"} THEN {entry} ELSE {}

\* success: an answer too large to send is an internal error, done or not.
Sendable(answer, mishap) ==
  IF mishap = "large" /\ answer.status = 200 THEN Error(500) ELSE answer

Mishaps == {"none", "stranger", "resolver", "begin", "large", "complete"}

Mishap(mishap) ==
  /\ mishap # "none" => mishaps < MaxMishaps
  /\ mishaps' = IF mishap = "none" THEN mishaps ELSE mishaps + 1

\* Fault: the observer is asked after the runtime.
FaultyHandled(p, message, token, mishap) ==
  LET done == Invoked(p, message, token)
  IN IF TurnedAway(message, mishap) # NoAnswer
     THEN [answer |-> TurnedAway(message, mishap), recorded |-> {},
           done |-> IF mishap = "begin" THEN done ELSE NoAnswer]
     ELSE [answer |-> Sendable(done, mishap), done |-> done,
           recorded |-> Kept(Observed(p, message, Sendable(done, mishap)), done)]

\* handle: what is answered, what was done, and what the observer has of it;
\* an observer that fails to complete takes the answer with it.
Handled(p, message, token, mishap) ==
  LET early == TurnedAway(message, mishap)
      done == Invoked(p, message, token)
      sent == Sendable(done, mishap)
  IN IF early # NoAnswer
     THEN [answer |-> early, done |-> NoAnswer, recorded |-> {}]
     ELSE [answer |-> IF mishap = "complete" THEN Error(500) ELSE sent,
           done |-> done,
           recorded |-> Kept(Observed(p, message,
                          IF mishap = "complete" THEN NoAnswer ELSE sent), done)]

\* A call is handled; tokens the answer does not name are lost, unless they
\* are kept for the caller.
Handle(p, message, token, mishap, handled, kept) ==
  /\ Mishap(mishap)
  /\ Changes(p, message, token, handled.done)
  /\ recorded' = recorded \cup handled.recorded
  /\ lost' = lost \cup (handled.done.tokens \ kept)

------------------------------------------------------------------------------
(* The JSON side. *)

\* What may be wrong with a request, in the order the server looks for it, and
\* what it answers then; the body is read last.
Boundary ==
  << <<"route", 404>>, <<"headers", 431>>, <<"method", 405>>, <<"media type", 415>>,
     <<"bearer", 401>>, <<"declared length", 413>> >>

\* Reading the body: too late, more than allowed or declared, or less.
BodyFailures == << <<"late", 408>>, <<"large", 413>>, <<"short", 400>> >>

\* The answers to whatever may be found first.
Refusals(checks) == {Error(checks[i][2]) : i \in DOMAIN checks}

Answered(c, answer) ==
  [phase |-> "answered", via |-> c.via, caller |-> c.caller, answer |-> answer,
   about |-> IF answer.kind = "error" THEN <<"none", "none">>
             ELSE <<c.message.operation, c.message.request>>]

\* A caller sends a token it was told, or one it made up.
SendJson(k, p, message) ==
  /\ calls[k] = Free
  /\ \E token \in known[p].tokens \cup {NoToken} :
       /\ message.operation = "claim" => token = NoToken
       /\ calls' = [calls EXCEPT ![k] =
            [phase |-> "reading", via |-> "json", caller |-> p,
             message |-> message, token |-> token]]
  /\ UNCHANGED <<decisions, claimed, applied, gate, session, known, lost, recorded, mishaps>>

\* The server refuses the request, or its body cannot be read.
JsonRefused(k) ==
  /\ calls[k].phase = "reading"
  /\ \E refusal \in Refusals(Boundary \o BodyFailures) :
       calls' = [calls EXCEPT ![k] = Answered(calls[k], refusal)]
  /\ UNCHANGED <<decisions, claimed, applied, gate, session, known, lost, recorded, mishaps>>

\* The client is gone before the body was read: the handler is never called.
Abandoned(k) ==
  /\ calls[k].phase = "reading"
  /\ calls' = [calls EXCEPT ![k] = Free]
  /\ UNCHANGED <<decisions, claimed, applied, gate, session, known, lost, recorded, mishaps>>

\* The handler runs; if the deadline has passed by then, 408 is answered
\* instead of what the handler said.
HandleJson(k, mishap) ==
  /\ calls[k].phase = "reading"
  /\ \E late \in BOOLEAN :
       LET c == calls[k]
           handled == Handled(c.caller, c.message, c.token, mishap)
           answer == IF late THEN Error(408) ELSE handled.answer
       IN /\ Handle(c.caller, c.message, c.token, mishap, handled, answer.tokens)
          /\ calls' = [calls EXCEPT ![k] = Answered(c, answer)]
  /\ UNCHANGED <<gate, session, known>>

------------------------------------------------------------------------------
(* The MCP side. *)

OpenSession(p) ==
  /\ ~session[p].open
  /\ session' = [session EXCEPT ![p] = [open |-> TRUE, authority |-> NoToken]]
  /\ UNCHANGED <<decisions, claimed, applied, gate, calls, known, lost, recorded, mishaps>>

\* The arguments a tool says it takes.
ToolNeeds(operation) ==
  CASE operation = "claim" -> {"request_id", "wake_id"}
    [] operation = "observe" -> {"sense"}
    [] operation = "act" -> {"request_id", "affordance", "target", "input"}
    [] OTHER -> {}

\* A tool call carries the arguments the tool asks for, or those of the
\* operation behind it.
SendTool(k, p, message) ==
  /\ calls[k] = Free /\ session[p].open
  /\ \E arguments \in {message.fields, ToolNeeds(message.operation)} :
       calls' = [calls EXCEPT ![k] =
         [phase |-> "called", via |-> "mcp", caller |-> p,
          message |-> [message EXCEPT !.fields = arguments], token |-> NoToken]]
  /\ UNCHANGED <<decisions, claimed, applied, gate, session, known, lost, recorded, mishaps>>

\* worldMcpRequestBody: what the handler is given, if the arguments bring no
\* token of their own and the session has one, or the call is a claim.
HasBody(p, message) ==
  /\ {"decision_token", "version"} \cap message.fields = {}
  /\ message.operation # "claim" => session[p].authority # NoToken

RequestBody(message) ==
  CASE message.operation = "claim" -> message
    [] message.operation = "ledger" ->
         [message EXCEPT !.fields = @ \cup {"decision_token", "version"}]
    [] OTHER -> [message EXCEPT !.fields = @ \cup {"decision_token"}]

\* Fault: a claim's token is remembered only if the session has none yet.
FaultyRemembered(old, answer) ==
  IF answer.kind = "token" /\ old = NoToken THEN CHOOSE t \in answer.tokens : TRUE ELSE old

\* The token of a claim stays with the session.
Remembered(old, answer) ==
  IF answer.kind = "token" THEN CHOOSE t \in answer.tokens : TRUE ELSE old

\* Fault: the answer to a claim is passed on as it is.
FaultyToolText(answer) == answer

\* What the agent is told of a claim: that it is claimed.
ToolText(answer) ==
  IF answer.kind = "token" THEN [answer EXCEPT !.kind = "claimed", !.tokens = {}] ELSE answer

\* The tool runs within the session.
RunTool(k, mishap) ==
  /\ calls[k].phase = "called"
  /\ LET c == calls[k]
         token == session[c.caller].authority
         message == RequestBody(c.message)
         handled == Handled(c.caller, message, token, mishap)
     IN IF c.message.operation \in Offered /\ HasBody(c.caller, c.message)
        THEN LET authority == Remembered(token, handled.answer)
             IN /\ Handle(c.caller, message, token, mishap, handled, handled.answer.tokens)
                /\ session' = [session EXCEPT ![c.caller].authority = authority]
                /\ calls' = [calls EXCEPT ![k] = Answered(c, ToolText(handled.answer))]
        ELSE /\ mishap = "none"
             /\ calls' = [calls EXCEPT ![k] = Answered(c, Error(403))]
             /\ UNCHANGED <<decisions, claimed, applied, session, lost, recorded, mishaps>>
  /\ UNCHANGED <<gate, known>>

\* What the boundary of the listener may find wrong with a call of a session.
ToolBoundary ==
  << <<"headers", 431>>, <<"session", 404>>, <<"method", 405>>, <<"media type", 415>>,
     <<"declared length", 413>>, <<"large", 413>>, <<"short", 400>> >>

ToolRefused(k) ==
  /\ calls[k].phase = "called"
  /\ \E refusal \in Refusals(ToolBoundary) :
       calls' = [calls EXCEPT ![k] = Answered(calls[k], refusal)]
  /\ UNCHANGED <<decisions, claimed, applied, gate, session, known, lost, recorded, mishaps>>

\* The session goes, and with it what it remembers and the calls that have not
\* run: deleted, idle for too long, or a call of it was cut short.
CloseSession(p) ==
  /\ session[p].open
  /\ session' = [session EXCEPT ![p] = NoSession]
  /\ lost' = lost \cup ({session[p].authority} \ {NoToken})
  /\ calls' = [k \in Slots |->
       IF calls[k].phase = "called" /\ calls[k].caller = p THEN Free ELSE calls[k]]
  /\ UNCHANGED <<decisions, claimed, applied, gate, known, recorded, mishaps>>

------------------------------------------------------------------------------
(* The wire, and the world around the calls. *)

Deliver(k) ==
  /\ calls[k].phase = "answered"
  /\ LET c == calls[k]
     IN known' = [known EXCEPT
          ![c.caller].tokens = @ \cup c.answer.tokens,
          ![c.caller].receipts = @ \cup
             IF c.answer.kind = "receipt"
             THEN {[request |-> c.about[2], receipt |-> c.answer.receipt]} ELSE {}]
  /\ calls' = [calls EXCEPT ![k] = Free]
  /\ UNCHANGED <<decisions, claimed, applied, gate, session, lost, recorded, mishaps>>

LoseAnswer(k) ==
  /\ calls[k].phase = "answered"
  /\ lost' = lost \cup calls[k].answer.tokens
  /\ calls' = [calls EXCEPT ![k] = Free]
  /\ UNCHANGED <<decisions, claimed, applied, gate, session, known, recorded, mishaps>>

\* The topology is activated: decisions may be claimed from here on.
Activate ==
  /\ ClaimEnabled /\ ~gate.active /\ gate' = [gate EXCEPT !.active = TRUE]
  /\ UNCHANGED <<decisions, claimed, applied, session, calls, known, lost, recorded, mishaps>>

\* The runtime closes its mechanics; it goes on answering.
CloseWorld ==
  /\ ~gate.closed /\ gate' = [gate EXCEPT !.closed = TRUE]
  /\ UNCHANGED <<decisions, claimed, applied, session, calls, known, lost, recorded, mishaps>>

\* A decision that was not used runs out with the ticks.
Expire(t) ==
  /\ decisions[t].state = "active"
  /\ decisions' = [decisions EXCEPT ![t].state = "expired"]
  /\ UNCHANGED <<claimed, applied, gate, session, calls, known, lost, recorded, mishaps>>

CallInit ==
  /\ decisions = << >> /\ claimed = {} /\ applied = << >>
  /\ gate = [active |-> FALSE, closed |-> FALSE]
  /\ session = [p \in Agents |-> NoSession]
  /\ calls = [k \in Slots |-> Free]
  /\ known = [p \in Agents |-> [tokens |-> {}, receipts |-> {}]]
  /\ lost = {} /\ recorded = {} /\ mishaps = 0

CallNext ==
  \/ Activate \/ CloseWorld
  \/ \E t \in Tokens : Expire(t)
  \/ \E p \in ToolUsers : OpenSession(p) \/ CloseSession(p)
  \/ \E k \in Slots :
       \/ \E p \in Agents : \E message \in Messages[p] : SendJson(k, p, message)
       \/ \E p \in ToolUsers : \E message \in Messages[p] : SendTool(k, p, message)
       \/ JsonRefused(k) \/ Abandoned(k) \/ ToolRefused(k) \/ Deliver(k) \/ LoseAnswer(k)
       \/ \E mishap \in Mishaps : HandleJson(k, mishap) \/ RunTool(k, mishap)

CallSpec == CallInit /\ [][CallNext]_callVars

------------------------------------------------------------------------------
(* Properties. *)

\* However answers are lost and calls repeated, an act is applied once and paid
\* for with one decision; whoever was given a receipt made that act, and the
\* receipt is the one the request ledger has.
ActsOnce ==
  /\ \A p \in Agents :
       Cardinality({r \in DOMAIN applied : applied[r].principal = p})
         = Cardinality({t \in Tokens : decisions[t] = [principal |-> p, state |-> "consumed"]})
  /\ \A p \in Agents : \A told \in known[p].receipts :
       /\ told.request \in DOMAIN applied
       /\ applied[told.request].principal = p
       /\ applied[told.request].receipt = told.receipt

\* What was done is on record, and so is whatever is answered as done.
OnRecord ==
  /\ \A r \in DOMAIN applied : \E entry \in recorded :
       /\ entry.operation = "act" /\ entry.request = r
       /\ entry.principal = applied[r].principal
  /\ \A k \in Slots :
       /\ calls[k].phase = "answered"
       /\ calls[k].answer.kind \in {"token", "claimed", "receipt"}
       => \E entry \in recorded :
            /\ <<entry.operation, entry.request>> = calls[k].about
            /\ entry.principal = calls[k].caller
            /\ entry.status = 200

\* A token is its principal's: nobody else is told of it, the observer and the
\* agent of an MCP session never are; and while it is active somebody can use
\* it, or it counts as lost.
AuthorityHeld ==
  /\ \A p \in Agents :
       /\ session[p].authority # NoToken => decisions[session[p].authority].principal = p
       /\ \A t \in known[p].tokens : decisions[t].principal = p
  /\ \A entry \in recorded : entry.tokens = {}
  /\ \A k \in Slots : calls[k].phase = "answered" =>
       /\ \A t \in calls[k].answer.tokens : decisions[t].principal = calls[k].caller
       /\ calls[k].via = "mcp" => calls[k].answer.tokens = {}
  /\ \A t \in Tokens : decisions[t].state = "active" =>
       LET p == decisions[t].principal
           held == \/ t \in known[p].tokens \/ session[p].authority = t
                   \/ \E k \in Slots : calls[k].phase = "answered" /\ t \in calls[k].answer.tokens
       IN held <=> t \notin lost

\* What a tool asks for is what the operation behind it takes.
ToolsFit ==
  \A operation \in Offered :
    WellFormed(RequestBody([operation |-> operation, fields |-> ToolNeeds(operation)]))

CallsHonest == ToolsFit /\ ActsOnce /\ OnRecord /\ AuthorityHeld
==============================================================================
