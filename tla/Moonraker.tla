------------------------------ MODULE Moonraker ------------------------------
(***************************************************************************)
(* The Moonraker client (internal/moonraker/client.go): connect, identify, *)
(* wait until Klippy is ready, subscribe, then pump notifications into the *)
(* Updates channel, and start again after any error.                       *)
(*                                                                         *)
(* One goroutine does all of this in order.  The three requests of the     *)
(* handshake go through `call', which waits on a channel that only         *)
(* readLoop fills, and readLoop is the last thing that runOnce calls.      *)
(*                                                                         *)
(* The server is external and at its best here: it answers every request,  *)
(* Klippy becomes ready, and a call times out only when nothing that is    *)
(* able to move could still bring its answer.                              *)
(***************************************************************************)
EXTENDS Naturals, Sequences

CONSTANTS
    UpdatesCap,     \* capacity of the Updates channel
    MaxID           \* bound: request ids start over, once nothing of the old is left

VARIABLES
    step,       \* how far runOnce has come; "delay": Run waits to reconnect
    callState,  \* the call in progress: "idle", "sent" or "waiting"
    nextID,
    pending,    \* the keys of c.pending
    reply,      \* the id in the channel of the call in progress, or 0
    requests,   \* external: ids of requests the server has yet to answer
    inbox,      \* the socket: what the server sent and nobody has read
    ready,      \* external: Klippy is ready
    updates     \* number of deltas in the Updates channel

clientVars == <<step, callState, nextID, pending, reply, updates>>
serverVars == <<requests, inbox, ready>>
moonrakerVars == <<clientVars, serverVars>>

Handshake == {"identify", "ready", "subscribe"}

MoonrakerInit ==
    /\ step = "dial" /\ callState = "idle" /\ nextID = 0 /\ pending = {}
    /\ reply = 0 /\ updates = 0
    /\ requests = {} /\ inbox = <<>> /\ ready = FALSE

-----------------------------------------------------------------------------
Dial ==
    /\ step = "dial"
    /\ step' = "identify"
    /\ UNCHANGED <<callState, nextID, pending, reply, updates, serverVars>>

\* call, first half: the request is written to the socket.
Send ==
    /\ step \in Handshake /\ callState = "idle"
    /\ nextID' = (nextID % MaxID) + 1
    /\ requests' = requests \cup {nextID'}
    /\ callState' = "sent"
    /\ UNCHANGED <<step, pending, reply, inbox, ready, updates>>

\* call, second half: only now can the answer be routed to this call.
AwaitReply ==
    /\ callState = "sent"
    /\ pending' = {nextID}
    /\ callState' = "waiting"
    /\ UNCHANGED <<step, nextID, reply, updates, serverVars>>

\* What follows when the answer to the current request has come.
CallReturns ==
    /\ callState = "waiting" /\ reply = nextID
    /\ step = "subscribe" => updates < UpdatesCap      \* the snapshot is sent
    /\ step' = CASE step = "identify" -> "ready"
                 [] step = "ready" -> IF ready THEN "subscribe" ELSE "ready"
                 [] step = "subscribe" -> "read"
    /\ updates' = IF step = "subscribe" THEN updates + 1 ELSE updates
    /\ callState' = "idle" /\ reply' = 0 /\ pending' = {}
    /\ UNCHANGED <<nextID, serverVars>>

\* runOnce returns an error: the connection is closed, with all that is in it.
Disconnect ==
    /\ step' = "delay"
    /\ callState' = "idle" /\ reply' = 0 /\ pending' = {}
    /\ requests' = {} /\ inbox' = <<>>
    /\ UNCHANGED <<nextID, ready, updates>>

ReaderCanMove == step = "read" /\ inbox # <<>>

CallTimesOut ==
    /\ callState = "waiting" /\ reply = 0
    /\ requests = {} /\ ~ReaderCanMove
    /\ Disconnect

Reconnect ==
    /\ step = "delay"
    /\ step' = "dial"
    /\ UNCHANGED <<callState, nextID, pending, reply, updates, serverVars>>

\* readLoop: a response goes to the call that waits for it, if one does; a
\* status update to Updates, or nowhere when that is full.
ReadMessage ==
    /\ ReaderCanMove
    /\ inbox' = Tail(inbox)
    /\ reply' = IF Head(inbox) \in pending THEN Head(inbox) ELSE reply
    /\ updates' = IF Head(inbox) = 0 /\ updates < UpdatesCap THEN updates + 1 ELSE updates
    /\ UNCHANGED <<step, callState, nextID, pending, requests, ready>>

ReadFails == step = "read" /\ Disconnect

\* The packetizer takes a delta from Updates.
Consume ==
    /\ updates > 0
    /\ updates' = updates - 1
    /\ UNCHANGED <<step, callState, nextID, pending, reply, serverVars>>

\* External: the server answers a request; a status update has id 0.
ServerAnswers ==
    \E id \in requests :
        /\ requests' = requests \ {id}
        /\ inbox' = Append(inbox, id)
        /\ UNCHANGED <<clientVars, ready>>

ServerNotifies ==
    /\ step = "read" /\ inbox = <<>>
    /\ inbox' = <<0>>
    /\ UNCHANGED <<clientVars, requests, ready>>

KlippyReady == ~ready /\ ready' = TRUE /\ UNCHANGED <<clientVars, requests, inbox>>

ClientStep ==
    \/ Dial
    \/ Send
    \/ AwaitReply
    \/ CallReturns
    \/ CallTimesOut
    \/ Reconnect
    \/ ReadMessage

MoonrakerNext ==
    \/ ClientStep
    \/ ReadFails
    \/ Consume
    \/ ServerAnswers
    \/ ServerNotifies
    \/ KlippyReady

\* The client's goroutine runs, the server answers, Klippy becomes ready.
MoonrakerSpec ==
    /\ MoonrakerInit
    /\ [][MoonrakerNext]_moonrakerVars
    /\ WF_moonrakerVars(ClientStep)
    /\ WF_moonrakerVars(ServerAnswers)
    /\ WF_moonrakerVars(KlippyReady)
    /\ WF_moonrakerVars(Consume)

-----------------------------------------------------------------------------
\* The client gets to pump notifications (Run: "connects to Moonraker,
\* identifies as an agent, subscribes to printer objects, and pumps incoming
\* notifications to Updates").
Subscribes == <>(step = "read")
=============================================================================
