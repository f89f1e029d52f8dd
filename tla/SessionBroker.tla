----------------------------- MODULE SessionBroker -----------------------------
(***************************************************************************)
(* The controller side of a controlled session: the private channel a host *)
(* session opens and one controller claims, the client on it, the broker   *)
(* that joins that channel with a terminal attachment and with the public  *)
(* stream of a controller, and the attachment.                             *)
(*                                                                         *)
(* Source: channel.go, client.go, controller_broker.go,                    *)
(* controller_terminal.go and terminal_attachment.go of                    *)
(* internal/controlledsession.  The host is what SessionSupervisor lets it *)
(* send; frames are whole, and bytes are numbered inputs and outputs.      *)
(* Goroutines that hand over one message through an unbuffered channel are *)
(* a variable that holds that message.                                     *)
(***************************************************************************)
EXTENDS Naturals

CONSTANTS
    MaxTyped,      \* inputs typed at the terminal
    MaxPending,    \* MaxFramePayloadV1: inputs that fit the buffer before ready
    MaxOutputs,    \* output frames of the workload
    MaxRequests    \* requests on the public stream

ASSUME BrokerBounds == {MaxTyped, MaxPending, MaxOutputs, MaxRequests} \subseteq Nat

VARIABLES
    channel,     \* the host's private channel: claim, listener, connection
    hostEnd,     \* what the host has sent, and what it has received
    client,      \* SessionClientV1: the held event, ready, terminated
    broker,      \* controllerBrokerStateV1, the setup and the two loops
    attachment,  \* the terminal end: typed, shown, attached, ended
    stream       \* the public stream: requests under way, events written

brokerVars == <<channel, hostEnd, client, broker, attachment, stream>>

-----------------------------------------------------------------------------
(* State                                                                    *)

NoEvent == "none"
Granted == {"input", "resize", "terminate", "complete"}
PublicRequests == {"resize", "terminate", "complete", "acknowledge"}

Running == broker.at \in {"setup", "loop"}

BrokerInit ==
    /\ channel = [claim |-> "none", closed |-> FALSE, path |-> TRUE, connection |-> "none",
                  stored |-> FALSE]
    /\ hostEnd = [sent |-> {}, outputs |-> 0, exited |-> FALSE, drained |-> FALSE, got |-> {}, inputs |-> 0]
    /\ client = [opened |-> FALSE, held |-> NoEvent, ready |-> FALSE, terminated |-> FALSE]
    /\ \E operations \in {Granted, Granted \ {"input"}} :
         broker = [at |-> "setup", terminal |-> FALSE, operations |-> operations, seen |-> {},
                   complete |-> FALSE, acknowledged |-> FALSE, ended |-> FALSE,
                   resize |-> FALSE, pending |-> 0, taken |-> 0, output |-> "none", cause |-> "none"]
    /\ attachment = [state |-> "starting", typed |-> 0, flight |-> NoEvent, shown |-> 0, end |-> FALSE]
    /\ stream = [flight |-> NoEvent, requests |-> 0, events |-> {}, open |-> TRUE]

-----------------------------------------------------------------------------
(* The private channel                                                      *)

ChannelLeft == <<hostEnd, client, broker, attachment, stream>>

\* Claim: one claim per channel; a connection is accepted from the expected
\* identity, or the claim fails and closes the channel ...
ClaimAccept ==
    /\ channel.claim = "none" /\ ~channel.closed
    /\ \/ channel' = [channel EXCEPT !.claim = "accepted", !.connection = "open"]
       \/ channel' = [channel EXCEPT !.claim = "failed", !.closed = TRUE, !.path = FALSE]
    /\ UNCHANGED ChannelLeft

ClaimFailed == [channel EXCEPT !.claim = "failed", !.closed = TRUE, !.path = FALSE, !.connection = "closed"]

\* ... the listener is retired ...
ClaimRetire ==
    /\ channel.claim = "accepted"
    /\ \/ channel' = [channel EXCEPT !.claim = "retired", !.path = FALSE]
       \/ channel' = ClaimFailed
    /\ UNCHANGED ChannelLeft

\* ... and the connection is kept, unless the channel was closed meanwhile.
ClaimStore ==
    /\ channel.claim = "retired"
    /\ channel' = IF channel.closed THEN [channel EXCEPT !.claim = "failed", !.connection = "closed"]
                  ELSE [channel EXCEPT !.claim = "stored", !.stored = TRUE]
    /\ UNCHANGED ChannelLeft

\* The opened event is the first on the connection.
ClaimOpen ==
    /\ channel.claim = "stored"
    /\ IF channel.connection = "open"
       THEN channel' = [channel EXCEPT !.claim = "claimed"] /\ client' = [client EXCEPT !.held = "opened"]
       ELSE channel' = ClaimFailed /\ UNCHANGED client
    /\ UNCHANGED <<hostEnd, broker, attachment, stream>>

\* Close closes the connection it finds; the listener goes with it.  (That a
\* host closes it once the broker has returned is of no further interest.)
CloseChannel ==
    /\ Running /\ ~channel.closed
    /\ channel' = [channel EXCEPT !.closed = TRUE, !.path = FALSE,
                                  !.connection = IF channel.stored THEN "closed" ELSE @]
    /\ UNCHANGED ChannelLeft

\* The client closes its end when the broker returns.
Connected == Running /\ channel.claim = "claimed" /\ channel.connection = "open"

-----------------------------------------------------------------------------
(* The host                                                                 *)

\* The order in which a session sends its lifecycle events.  Diagnostics, which
\* the broker passes on and which change nothing in it, are left out.
MayAnnounce(e) ==
    LET sent == hostEnd.sent IN
    /\ e \notin sent /\ "terminated" \notin sent
    /\ CASE e = "ready" -> "terminating" \notin sent
         [] e = "workload-exit" -> "ready" \in sent /\ ~hostEnd.exited /\ "outputs-finalized" \notin sent
         [] e = "terminating" -> TRUE
         [] e = "outputs-finalized" -> "terminating" \in sent
         [] e = "terminated" -> "ready" \in sent => "outputs-finalized" \in sent

LifecycleEvents ==
    {"ready", "workload-exit", "terminating", "outputs-finalized", "terminated"}

\* ReadEvent in its goroutine: the flags of the client change before the broker
\* has the event.  (An event the socket holds longer is one sent later.)
Reads(e) ==
    /\ Connected /\ broker.at = "loop" /\ client.held = NoEvent
    /\ client' = [client EXCEPT !.held = e, !.ready = @ \/ e = "ready",
                                !.terminated = @ \/ e = "terminated"]
    /\ UNCHANGED <<channel, broker, attachment, stream>>

\* sendLifecycleEvent
HostSends ==
    \E e \in LifecycleEvents, drained \in BOOLEAN :
      /\ MayAnnounce(e) /\ Reads(e)
      /\ drained => e = "outputs-finalized" /\ ("ready" \in hostEnd.sent => hostEnd.exited)
      /\ hostEnd' = [hostEnd EXCEPT !.sent = @ \cup {e}, !.exited = @ \/ e = "workload-exit",
                              !.drained = @ \/ drained]

\* The output pump of the session
HostOutputs ==
    /\ hostEnd.outputs < MaxOutputs /\ hostEnd.sent \cap {"outputs-finalized", "terminated"} = {}
    /\ Reads("output")
    /\ hostEnd' = [hostEnd EXCEPT !.outputs = @ + 1]

\* observeWorkloadResult past the deadline of the finalization: the exit counts,
\* and its event is left out.
LateExit ==
    /\ Connected /\ MayAnnounce("workload-exit") /\ "terminating" \in hostEnd.sent
    /\ hostEnd' = [hostEnd EXCEPT !.exited = TRUE]
    /\ UNCHANGED <<channel, client, broker, attachment, stream>>

ExitOmitted == hostEnd.exited /\ "workload-exit" \notin hostEnd.sent

-----------------------------------------------------------------------------
(* The client                                                               *)

\* failControllerBrokerV1: the broker returns an error; its connections close.
Fails(cause) == broker' = [broker EXCEPT !.at = "failed", !.cause = cause]

\* newSessionClientV1, while the broker is set up
ClientOpens ==
    /\ broker.at = "setup" /\ client.held = "opened"
    /\ client' = [client EXCEPT !.held = NoEvent, !.opened = TRUE]
    /\ stream' = [stream EXCEPT !.events = @ \cup {"opened"}]
    /\ UNCHANGED <<channel, hostEnd, broker, attachment>>

\* WriteRequest: refused before ready and, but for the acknowledgement, once the
\* client has read the result.
Writable(kind) ==
    IF kind = "acknowledge" THEN client.terminated ELSE client.ready /\ ~client.terminated

\* A write fails when the connection is gone, and may run into its time limit.
WriteHost(kind, written, done, refused) ==
    \/ Writable(kind) /\ Connected /\ hostEnd' = written /\ broker' = done
    \/ (IF Writable(kind) THEN Fails("transport") ELSE Fails(refused)) /\ UNCHANGED hostEnd

Got(kind) == [hostEnd EXCEPT !.got = @ \cup {kind}]

-----------------------------------------------------------------------------
(* The setup of the broker                                                  *)

\* The attachment connects within its ten seconds, or not.
AcceptTerminal ==
    /\ broker.at = "setup" /\ ~broker.terminal /\ attachment.state = "starting"
    /\ \/ /\ broker' = [broker EXCEPT !.terminal = TRUE]
          /\ attachment' = [attachment EXCEPT !.state = "attached"]
       \/ Fails("attach-timeout") /\ UNCHANGED attachment
    /\ UNCHANGED <<channel, hostEnd, client, stream>>

\* A bug: only the new input is measured.
InputFits == 1 <= MaxPending

BufferFits == broker.pending + 1 <= MaxPending

\* What waits: the last size, and all input, which must fit one frame
Buffer(kind) ==
    IF kind = "resize" THEN broker' = [broker EXCEPT !.resize = TRUE]
    ELSE IF BufferFits THEN broker' = [broker EXCEPT !.pending = @ + 1, !.taken = @ + 1]
    ELSE Fails("buffer")

\* controllerBrokerPendingTerminalV1.add: what is typed before the host opened
\* the session, and the last size of the terminal
BufferSetup ==
    /\ broker.at = "setup" /\ attachment.flight # NoEvent
    /\ attachment' = [attachment EXCEPT !.flight = NoEvent]
    /\ Buffer(attachment.flight)
    /\ UNCHANGED <<channel, hostEnd, client, stream>>

\* The loop begins with what was buffered, which must be granted.
BeginLoop ==
    /\ broker.at = "setup" /\ broker.terminal /\ client.opened
    /\ IF broker.pending > 0 /\ "input" \notin broker.operations THEN Fails("not-granted")
       ELSE broker' = [broker EXCEPT !.at = "loop"]
    /\ UNCHANGED <<channel, hostEnd, client, attachment, stream>>

-----------------------------------------------------------------------------
(* Requests                                                                 *)

Seen(e) == e \in broker.seen

\* A bug: input is passed on until the result is there.
DropsUntilResult == Seen("terminated")

DropsTyped == Seen("terminating") \/ Seen("terminated")

\* applyRequest for what the terminal sends: dropped once the session is
\* terminating, buffered before it is ready.
TerminalRequest ==
    /\ broker.at = "loop" /\ attachment.flight # NoEvent
    /\ attachment' = [attachment EXCEPT !.flight = NoEvent]
    /\ LET kind == attachment.flight IN
       IF DropsTyped THEN UNCHANGED <<broker, hostEnd>>
       ELSE IF kind \notin broker.operations THEN Fails("not-granted") /\ UNCHANGED hostEnd
       ELSE IF ~Seen("ready") THEN Buffer(kind) /\ UNCHANGED hostEnd
       ELSE IF kind = "input"
            THEN WriteHost(kind, [hostEnd EXCEPT !.inputs = @ + 1], [broker EXCEPT !.taken = @ + 1], "typed-refused")
            ELSE WriteHost(kind, Got(kind), broker, "typed-refused")
    /\ UNCHANGED <<channel, client, stream>>

\* A bug: the result is acknowledged as soon as the session terminates.
PublicAllowedEarly(kind) ==
    CASE kind = "acknowledge" -> Seen("terminating") /\ ~broker.acknowledged
      [] kind = "complete" -> Seen("outputs-finalized") /\ ~broker.complete /\ ~Seen("terminated")
      [] OTHER -> Seen("ready") /\ ~Seen("terminated") /\ (kind = "resize" => ~Seen("terminating"))

\* applyRequest: what the public stream may ask for, and when.
PublicAllowed(kind) ==
    IF kind = "acknowledge" THEN Seen("terminated") /\ ~broker.acknowledged
    ELSE /\ Seen("ready") /\ ~Seen("terminated") /\ kind \in broker.operations
         /\ kind = "resize" => ~Seen("terminating")
         /\ kind = "complete" => Seen("terminating") /\ Seen("outputs-finalized") /\ ~broker.complete

PublicRequest ==
    /\ broker.at = "loop" /\ stream.flight # NoEvent
    /\ stream' = [stream EXCEPT !.flight = NoEvent]
    /\ LET kind == stream.flight IN
       IF PublicAllowed(kind)
       THEN WriteHost(kind, Got(kind), [broker EXCEPT !.complete = @ \/ kind = "complete",
                                                      !.acknowledged = @ \/ kind = "acknowledge"], "overtaken")
       ELSE Fails("rejected") /\ UNCHANGED hostEnd
    /\ UNCHANGED <<channel, client, attachment>>

-----------------------------------------------------------------------------
(* Events                                                                   *)

PublishEvent(e) == stream' = [stream EXCEPT !.events = @ \cup {e}]

\* The broker's own order of the host's events
EventInOrder(e) ==
    /\ ~Seen("terminated")
    /\ CASE e = "ready" -> ~Seen("ready") /\ ~Seen("terminating")
         [] e = "output" -> ~Seen("outputs-finalized")
         [] e = "workload-exit" -> ~Seen("workload-exit") /\ ~Seen("outputs-finalized")
         [] e = "terminating" -> ~Seen("terminating")
         [] e = "outputs-finalized" ->
              /\ Seen("terminating") /\ ~Seen("outputs-finalized")
              /\ Seen("ready") => Seen("workload-exit") \/ ~hostEnd.drained
         [] e = "terminated" -> Seen("ready") => Seen("terminating") /\ broker.ended
         [] OTHER -> TRUE

Sized == IF broker.resize THEN Got("resize") ELSE hostEnd

\* A bug: only the size is passed on when the session becomes ready.
ApplyReadyResizeOnly ==
    /\ broker' = [broker EXCEPT !.seen = @ \cup {"ready"}, !.resize = FALSE, !.pending = 0]
    /\ hostEnd' = Sized
    /\ PublishEvent("ready")

\* Ready: the size, the event, then what was typed; each write may fail.
ApplyReady ==
    \/ /\ (broker.resize \/ broker.pending > 0) => Writable("resize") /\ Connected
       /\ broker' = [broker EXCEPT !.seen = @ \cup {"ready"}, !.resize = FALSE, !.pending = 0]
       /\ hostEnd' = [Sized EXCEPT !.inputs = @ + broker.pending]
       /\ PublishEvent("ready")
    \/ /\ Fails(IF Writable("resize") THEN "transport" ELSE "typed-refused")
       /\ \/ UNCHANGED <<hostEnd, stream>>
          \/ Connected /\ hostEnd' = Sized /\ (PublishEvent("ready") \/ UNCHANGED stream)

\* A bug: that the terminal has its end is not recorded.
EndTerminalUnrecorded(e) ==
    /\ attachment.state = "attached"
    /\ attachment' = [attachment EXCEPT !.end = TRUE]
    /\ broker' = [broker EXCEPT !.seen = @ \cup {e, "outputs-finalized"}]

\* writeTerminalEnd, which has the time of output finalization
EndTerminal(e) ==
    \/ /\ attachment.state = "attached"
       /\ attachment' = [attachment EXCEPT !.end = TRUE]
       /\ broker' = [broker EXCEPT !.seen = @ \cup {e, "outputs-finalized"}, !.ended = TRUE]
    \/ Fails("terminal") /\ UNCHANGED attachment

\* A bug: the next event is taken while output waits for the terminal.
TakesAlways == broker.at = "loop" /\ client.held # NoEvent

TakesEvents == broker.at = "loop" /\ client.held # NoEvent /\ broker.output = "none"

\* applyHostEvent, with a public stream that may fail to take the event
ApplyEvent ==
    /\ TakesEvents
    /\ client' = [client EXCEPT !.held = NoEvent]
    /\ LET e == client.held IN
       \/ ~EventInOrder(e) /\ Fails("out-of-order") /\ UNCHANGED <<hostEnd, attachment, stream>>
       \/ EventInOrder(e) /\ e # "output" /\ Fails("public-stream") /\ UNCHANGED <<hostEnd, attachment, stream>>
       \/ /\ EventInOrder(e)
          /\ CASE e = "output" ->
                    broker' = [broker EXCEPT !.output = "pending"] /\ UNCHANGED <<hostEnd, attachment, stream>>
               [] e = "ready" -> ApplyReady /\ UNCHANGED attachment
               [] e = "outputs-finalized" -> EndTerminal(e) /\ PublishEvent(e) /\ UNCHANGED hostEnd
               [] e = "terminated" /\ ~broker.ended ->
                    /\ EndTerminal(e) /\ UNCHANGED hostEnd
                    /\ IF broker'.at = "loop" THEN PublishEvent(e) ELSE UNCHANGED stream
               [] OTHER -> /\ broker' = [broker EXCEPT !.seen = @ \cup {e}]
                           /\ PublishEvent(e) /\ UNCHANGED <<hostEnd, attachment>>
    /\ UNCHANGED <<channel>>

\* writeControllerBrokerTerminalOutputV1, under the timeout of a write
WriteOutput ==
    /\ broker.at = "loop" /\ broker.output = "pending"
    /\ \/ /\ attachment.state = "attached"
          /\ attachment' = [attachment EXCEPT !.shown = @ + 1]
          /\ broker' = [broker EXCEPT !.output = "none"]
       \/ Fails("terminal") /\ UNCHANGED attachment
    /\ UNCHANGED <<channel, hostEnd, client, stream>>

-----------------------------------------------------------------------------
(* The ends                                                                 *)

\* A bug: the closed channel is enough once the result was forwarded.
HostClosedAfterResult ==
    /\ broker.at = "loop" /\ client.held = NoEvent /\ ~Connected
    /\ IF Seen("terminated") THEN broker' = [broker EXCEPT !.at = "returned"]
       ELSE Fails("transport")
    /\ UNCHANGED <<channel, hostEnd, client, attachment, stream>>

\* A bug: the end of the connection is passed over until the acknowledgement.
HostClosedIgnored ==
    /\ broker.at = "loop" /\ client.held = NoEvent /\ ~Connected /\ broker.acknowledged
    /\ broker' = [broker EXCEPT !.at = "returned"] \/ Fails("transport")
    /\ UNCHANGED <<channel, hostEnd, client, attachment, stream>>

\* The connection ends: well after the acknowledgement only, and not when it is
\* reset.
HostClosed ==
    /\ broker.at = "loop" /\ client.held = NoEvent /\ ~Connected
    /\ \/ broker.acknowledged /\ broker' = [broker EXCEPT !.at = "returned"]
       \/ Fails("transport")
    /\ UNCHANGED <<channel, hostEnd, client, attachment, stream>>

\* The claim never came to an opened event.
OpenFails ==
    /\ broker.at = "setup" /\ ~client.opened /\ client.held = NoEvent
    /\ channel.claim = "failed" \/ channel.connection = "closed" \/ (channel.claim = "none" /\ channel.closed)
    /\ Fails("transport")
    /\ UNCHANGED <<channel, hostEnd, client, attachment, stream>>

\* The end of the terminal's requests is expected after the end of output ...
TerminalEnds ==
    /\ Running /\ attachment.state = "gone" /\ attachment.flight = NoEvent /\ ~broker.ended
    /\ broker.terminal
    /\ Fails("terminal")
    /\ UNCHANGED <<channel, hostEnd, client, attachment, stream>>

\* ... and that of the public stream after the acknowledgement.
StreamEnds ==
    /\ broker.at = "loop" /\ ~stream.open /\ stream.flight = NoEvent /\ ~broker.acknowledged
    /\ Fails("public-stream")
    /\ UNCHANGED <<channel, hostEnd, client, attachment, stream>>

\* A stream that broke, rather than ended, is an error even then.
InputBreaks ==
    /\ \/ Running /\ broker.terminal /\ attachment.state = "gone" /\ Fails("terminal")
       \/ broker.at = "loop" /\ ~stream.open /\ Fails("public-stream")
    /\ UNCHANGED <<channel, hostEnd, client, attachment, stream>>

BrokerCanceled ==
    /\ Running
    /\ Fails("canceled")
    /\ UNCHANGED <<channel, hostEnd, client, attachment, stream>>

-----------------------------------------------------------------------------
(* The terminal and the controller                                          *)

\* runTerminalAttachmentV1: input and sizes are sent as they come.
Type ==
    /\ Running /\ attachment.state = "attached" /\ attachment.flight = NoEvent
    /\ attachment.typed < MaxTyped
    /\ \E kind \in {"input", "resize"} :
         attachment' = [attachment EXCEPT !.flight = kind, !.typed = @ + 1]
    /\ UNCHANGED <<channel, hostEnd, client, broker, stream>>

\* It leaves after the end of output, or is lost.
AttachmentLeaves ==
    /\ Running /\ attachment.state = "attached"
    /\ attachment' = [attachment EXCEPT !.state = "gone"]
    /\ UNCHANGED <<channel, hostEnd, client, broker, stream>>

\* The controller asks for anything, at any time; the stream is read once the
\* loop runs.
ControllerAsks ==
    /\ broker.at = "loop" /\ stream.open /\ stream.flight = NoEvent /\ stream.requests < MaxRequests
    /\ \E kind \in PublicRequests :
         stream' = [stream EXCEPT !.flight = kind, !.requests = @ + 1]
    /\ UNCHANGED <<channel, hostEnd, client, broker, attachment>>

ControllerCloses ==
    /\ broker.at = "loop" /\ stream.open
    /\ stream' = [stream EXCEPT !.open = FALSE]
    /\ UNCHANGED <<channel, hostEnd, client, broker, attachment>>

BrokerSteps ==
    \/ ClientOpens \/ AcceptTerminal \/ BufferSetup \/ BeginLoop
    \/ TerminalRequest \/ PublicRequest \/ ApplyEvent \/ WriteOutput
    \/ HostClosed \/ OpenFails \/ TerminalEnds \/ StreamEnds

ClaimSteps == ClaimAccept \/ ClaimRetire \/ ClaimStore \/ ClaimOpen

BrokerNext ==
    \/ BrokerSteps \/ ClaimSteps
    \/ CloseChannel \/ HostSends \/ HostOutputs \/ LateExit \/ InputBreaks \/ BrokerCanceled
    \/ Type \/ AttachmentLeaves \/ ControllerAsks \/ ControllerCloses

BrokerSpec ==
    BrokerInit /\ [][BrokerNext]_brokerVars
    /\ WF_brokerVars(BrokerSteps) /\ WF_brokerVars(ClaimSteps)

-----------------------------------------------------------------------------
(* Properties                                                               *)

\* The types; the buffer before ready never exceeds one frame.
BrokerTypeOK ==
    /\ broker.at \in {"setup", "loop", "returned", "failed"} /\ broker.pending \in 0..MaxPending
    /\ client.held \in LifecycleEvents \cup {NoEvent, "opened", "output"}

\* A channel closed while it is being claimed keeps neither its listener nor
\* the connection, whichever of the two threads comes first.
ClosedChannelDrops ==
    channel.closed /\ channel.claim \in {"stored", "claimed", "failed"} =>
        ~channel.path /\ channel.connection # "open"

\* Once the session is ready, everything the broker took from the terminal has
\* reached the host: nothing typed before the session opened or was ready is
\* lost, and nothing is sent twice.
TypedIsDelivered ==
    broker.at = "loop" /\ Seen("ready") => hostEnd.inputs = broker.taken

\* The end of the terminal's output comes after all of it.
EndAfterOutput == attachment.end => attachment.shown = hostEnd.outputs

\* The broker succeeds only after it forwarded the result, sent the
\* acknowledgement and saw the host close the channel.
SuccessEarned ==
    broker.at = "returned" =>
        /\ "terminated" \in stream.events /\ channel.connection = "closed"
        /\ "acknowledge" \in hostEnd.got

\* The host hears an acknowledgement of a result only after the controller was
\* given that result.
AcknowledgedWasShown ==
    "acknowledge" \in hostEnd.got => "terminated" \in stream.events

\* The broker takes every order of events a host session produces for one of
\* its own order, although it counts what it has seen itself; but for an exit
\* the host left out.
OrderAgrees == broker.cause = "out-of-order" => ExitOmitted

\* What is typed is never refused by the client under the broker; a request of
\* the controller only when the result of the session overtook it.
RefusalsAreLate ==
    /\ broker.cause # "typed-refused"
    /\ broker.cause = "overtaken" => client.terminated /\ ~Seen("terminated")

\* What passes through the broker passes once, in order and completely, and
\* nobody is told of a success or an acknowledgement before it is one.  The
\* threads of channel, client and broker each have their own view of the
\* session; where the views differ nothing is kept open or refused for it.
BrokerSound ==
    /\ BrokerTypeOK /\ TypedIsDelivered /\ EndAfterOutput /\ SuccessEarned /\ AcknowledgedWasShown
    /\ ClosedChannelDrops /\ OrderAgrees /\ RefusalsAreLate

\* A broker whose host has closed the channel returns, also when the terminal
\* takes no output.
BrokerReturns == []<>(channel.connection # "closed" \/ ~Running)

================================================================================
