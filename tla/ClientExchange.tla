--------------------------- MODULE ClientExchange ---------------------------
(***************************************************************************)
(* The exchange of PropagationClient with a propagation node               *)
(* (crates/lxmf-core/src/propagation_client.rs): one Link for each         *)
(* download, its endpoint, one request after the other as a packet or a    *)
(* Resource, the answer as a packet or as Resource segments, the deadlines,*)
(* and the release of the Link.  What the requests ask and what the        *)
(* answers say is DownloadClient's.                                        *)
(*                                                                         *)
(* start_download, tick, drain_events and cancel_download are called one   *)
(* after the other.  What a call reads (results of the transport, packets  *)
(* of the node) comes in any order, late or never, so each kind is one     *)
(* action: a call that finds just that.  Time is abstracted: any deadline  *)
(* that runs may be over.  The channel to the transport takes `room`       *)
(* messages during a call; the rest wait in pending_transport.  The         *)
(* transport itself does not end.                                           *)
(***************************************************************************)
EXTENDS Naturals, Sequences, FiniteSets

CONSTANTS
    MaxLinks,           \* bound: downloads that open a Link
    MaxRequests,        \* bound: requests made
    StageLimit,         \* PENDING_TRANSPORT_LIMIT
    TotalSegments       \* segments of a Resource answer to each request

Requests == 1 .. MaxRequests

ASSUME ExchangeAssumption ==
    /\ MaxLinks \in Nat /\ MaxRequests \in Nat /\ StageLimit \in Nat \ {0}
    /\ TotalSegments \in [Requests -> Nat \ {0}]

(* PropagationClient with the destinations that the transport has           *)
(* registered for it, as one record:                                        *)
(*   state, link, linkState, endpoint (attached_interface,                  *)
(*   pending_endpoint_bind), asking (link_request_result), released         *)
(*   (endpoint_release_queued), request, made (next_request_generation),    *)
(*   links (downloads so far), staged (pending_transport), room;            *)
(*   sends (pending_endpoint_sends) as the set of their messages, cleanups  *)
(*   (pending_endpoint_cleanups), destinations, and unheard: Links whose    *)
(*   release was not retained, or has an answer that was lost.              *)
VARIABLE exchange
exchangeVars == <<exchange>>

NoRequest == [gen |-> 0]
NoResponse == [current |-> 0]
Asking(c) == c.request # NoRequest
Answering(c) == Asking(c) /\ c.request.response # NoResponse
Fetching(c) == Answering(c) /\ c.request.response.fetching

(* Messages for the transport; those of an endpoint carry the generation of *)
(* the request that owns them, or 0.                                        *)
SenderTypes == {"Request", "Upload"}            \* ResourceAdv, Resource, Hmu, Icl
EndpointTypes == SenderTypes \cup {"Plain", "Keepalive", "Proof"}

Message(c, type, seg) ==
    [type |-> type, link |-> c.link, seg |-> seg,
     gen |-> IF type \in EndpointTypes \ {"Keepalive"} THEN c.request.gen ELSE 0]

Waits(c, m) == \E i \in DOMAIN c.staged : c.staged[i] = m

-----------------------------------------------------------------------------
(* queue_transport and flush_pending_transport.                             *)

Registers(dests, m) ==
    CASE m.type = "Register" -> dests \cup {m.link}
      [] m.type = "Deregister" -> dests \ {m.link}
      [] OTHER -> dests

Accepts(c) == (c.staged = <<>> /\ c.room > 0) \/ Len(c.staged) < StageLimit

Queued(c, m) ==
    IF c.staged = <<>> /\ c.room > 0
    THEN [c EXCEPT !.room = c.room - 1, !.destinations = Registers(c.destinations, m)]
    ELSE [c EXCEPT !.staged = Append(c.staged, m)]

Flushed(c) ==
    LET n == IF c.room < Len(c.staged) THEN c.room ELSE Len(c.staged)
        went(type) == {c.staged[i].link : i \in {j \in 1 .. n : c.staged[j].type = type}}
    IN  [c EXCEPT !.room = c.room - n,
                  !.staged = SubSeq(c.staged, n + 1, Len(c.staged)),
                  !.destinations = (c.destinations \cup went("Register")) \ went("Deregister")]

(* fail: the state; the admissions it revokes are DownloadClient's.         *)
Fails(c) == [c EXCEPT !.state = "Failed"]

(* queue_link_endpoint, send_link_packet: a message that is not retained    *)
(* fails the download.                                                      *)
Sends(c, type, seg) ==
    LET m == Message(c, type, seg)
    IN  IF Accepts(c) THEN [Queued(c, m) EXCEPT !.sends = c.sends \cup {m}] ELSE Fails(c)

SendsFinal(c) ==
    LET m == Message(c, "Final", 0)
    IN  [Queued(c, m) EXCEPT !.sends = c.sends \cup {m}, !.released = TRUE]

(* queue_endpoint_cleanup.                                                  *)
Mut_Unbinds(c, l) ==
    IF l = c.link /\ Accepts(c)
    THEN [Queued(c, [type |-> "Unbind", link |-> l, seg |-> 0, gen |-> 0])
            EXCEPT !.cleanups = c.cleanups \cup {l}]
    ELSE c

Unbinds(c, l) ==
    IF Accepts(c)
    THEN [Queued(c, [type |-> "Unbind", link |-> l, seg |-> 0, gen |-> 0])
            EXCEPT !.cleanups = c.cleanups \cup {l}]
    ELSE [c EXCEPT !.unheard = c.unheard \cup {l}]

(* cleanup, with send_teardown: only an active Link says goodbye.           *)
Cleaned(c) ==
    LET keeps(m) == m.type # "LinkRequest" /\ ~(m.type \in EndpointTypes /\ m.link = c.link)
        d == [c EXCEPT !.asking = FALSE, !.request = NoRequest,
                       !.staged = SelectSeq(c.staged, keeps)]
        e == CASE c.link = 0 \/ c.released -> d
               [] c.link # 0 /\ ~c.released /\ c.linkState = "active" /\ Accepts(d) -> SendsFinal(d)
               [] OTHER -> Unbinds(d, c.link)
    IN  [e EXCEPT !.link = 0, !.linkState = "none", !.endpoint = "none", !.released = FALSE]

-----------------------------------------------------------------------------
(* Requests.                                                                *)

(* retire_request_sender: what of the request still waits is dropped.       *)
Retired(c) ==
    LET keeps(m) == ~(m.type \in SenderTypes /\ m.link = c.link)
    IN  IF ~Asking(c) THEN c
        ELSE [c EXCEPT !.request = [c.request EXCEPT !.sender = FALSE, !.outbound = FALSE],
                       !.staged = SelectSeq(c.staged, keeps)]

(* finish_request.                                                          *)
Finished(c) == [Retired(c) EXCEPT !.request = NoRequest]

(* The request is out, and its answer is waited for.                        *)
Mut_Awaited(c) ==
    IF c.request.sender THEN [c EXCEPT !.request = [c.request EXCEPT !.clock = TRUE]] ELSE c

Awaited(c) == [c EXCEPT !.request = [c.request EXCEPT !.clock = TRUE]]

(* send_get_path_request: a packet, a Resource (drive_outbound_request      *)
(* sends the advertisement), or one that cannot be made.                    *)
Forms == {"packet", "resource", "unfit"}

Requested(c, form) ==
    LET d == [c EXCEPT !.state = "Requested", !.made = c.made + 1,
                       !.request = [gen |-> c.made + 1, sender |-> TRUE, clock |-> FALSE,
                                    outbound |-> form = "resource", response |-> NoResponse]]
        fits == ~Asking(c) /\ c.linkState = "active"
    IN  CASE fits /\ form = "packet" -> Sends(d, "Request", 0)
          [] fits /\ form = "resource" -> Sends(d, "Upload", 0)
          [] OTHER -> Fails(c)

(* What follows an answer (handle_list_response, handle_get_response_owned, *)
(* handle_purge_response, send_next_chunk): the next request, the wait for  *)
(* admissions, the end, or a failure when it cannot be read.                *)
Answers == Forms \cup {"await", "done", "unreadable"}

Continues(c, next) ==
    CASE next \in Forms -> Requested(c, next)
      [] next = "await" -> [c EXCEPT !.state = "AwaitingAdmission"]
      [] next = "done" -> [c EXCEPT !.state = "Complete"]

Answered(c, next) ==
    IF next = "unreadable" THEN Fails(c) ELSE Continues(Finished(c), next)

(* poll_endpoint_send_results drops what no longer concerns the Link and    *)
(* the request there is, except final sends; neither comes back, so it is   *)
(* dropped at the end of each call.                                         *)
Mut_Concerns(c, m) == m.link = c.link

Concerns(c, m) ==
    /\ m.link = c.link
    /\ m.gen = 0 \/ (m.gen = c.request.gen /\ (m.type \in SenderTypes => c.request.sender))

Heard(c) == [c EXCEPT !.sends = {m \in c.sends : m.type = "Final" \/ Concerns(c, m)}, !.room = 0]

-----------------------------------------------------------------------------
(* Calls.                                                                   *)

Rooms == 0 .. StageLimit + 1
Found == {[exchange EXCEPT !.room = r] : r \in Rooms}
Called(c) == exchange' = Heard(c)

Over == {"Idle", "Complete", "Failed"}                  \* Partial is Complete
Alive == exchange.state # "Failed"
Attached == Alive /\ exchange.endpoint = "attached"

(* start_download_with_limit; received messages or suppression that is not  *)
(* saved refuse it before it does anything.                                 *)
StartDownload ==
    \E c \in Found :
      LET d == Flushed(IF c.state = "Idle" THEN c ELSE Cleaned(c))
          l == d.links + 1
          register == [type |-> "Register", link |-> l, seg |-> 0, gen |-> 0]
      IN  /\ c.state \in Over /\ d.links < MaxLinks
          /\ Called(IF d.staged # <<>> THEN d
                     ELSE LET e == Queued(d, register)
                          IN  IF ~Accepts(e) THEN [e EXCEPT !.staged = <<>>]
                              ELSE [Queued(e, [register EXCEPT !.type = "LinkRequest"]) EXCEPT
                                      !.state = "LinkEstablishing", !.link = l, !.links = l,
                                      !.linkState = "pending", !.asking = TRUE,
                                      !.endpoint = "none", !.released = FALSE])

CancelDownload == \E c \in Found : Called([Cleaned(c) EXCEPT !.state = "Idle"])

(* tick, in the order of its steps: each may be the one that something is   *)
(* due in.  Link::tick chooses between nothing, a keepalive, a teardown of  *)
(* a stale Link and a Link that closed.                                     *)
TimedOut(c) == c.request.clock \/ (Answering(c) /\ ~Fetching(c))

LinkTicked(c, link) ==
    CASE link = "none" -> c
      [] link = "keepalive" -> Sends(c, "Keepalive", 0)
      [] link = "stale" ->
           LET d == IF Accepts(c) THEN SendsFinal(c) ELSE c
           IN  Fails([d EXCEPT !.linkState = "closed"])
      [] link = "closed" -> Fails([c EXCEPT !.linkState = "closed"])

(* drive_outbound_request: OutboundTransfer::tick advertises again or fails.*)
Driven(c, upload) ==
    IF c.state = "Failed" \/ ~Asking(c) THEN c
    ELSE CASE ~c.request.outbound \/ upload = "none" -> c
           [] c.request.outbound /\ upload = "again" -> Sends(c, "Upload", 0)
           [] c.request.outbound /\ upload = "fails" -> Fails(c)

(* InboundTransfer::check_timeout asks again or fails.                      *)
Watched(c, fetch) ==
    CASE c.state # "Receiving" \/ ~Fetching(c) \/ fetch = "none" -> c
      [] c.state = "Receiving" /\ Fetching(c) /\ fetch = "again" -> Sends(c, "Plain", 0)
      [] c.state = "Receiving" /\ Fetching(c) /\ fetch = "fails" -> Fails(c)

(* The match on the state: an established Link identifies and asks for the  *)
(* list; a download that is over is cleaned up.                             *)
Advanced(c, form) ==
    CASE c.state = "LinkEstablished" ->
           LET d == IF c.linkState = "active" THEN Sends(c, "Plain", 0) ELSE c
           IN  IF d.state = "Failed" THEN d ELSE Requested(d, form)
      [] c.state \in {"Complete", "Failed"} -> Cleaned(c)
      [] OTHER -> c

(* poll_admissions, while the client waits for them.                        *)
Admitted(c, next) ==
    CASE c.state # "AwaitingAdmission" \/ next = "await" -> c
      [] c.state = "AwaitingAdmission" /\ next = "unreadable" -> Fails(c)
      [] c.state = "AwaitingAdmission" /\ next \in Forms \cup {"done"} -> Continues(c, next)

Only(condition, choices, otherwise) ==
    {otherwise} \cup IF condition THEN choices ELSE {}

MayAsk(c, next) == next \in {"packet", "resource"} => c.made < MaxRequests

Tick ==
    \E c \in {Flushed(d) : d \in Found} :
      \/ c.state = "Failed" /\ Called(Cleaned(c))
      \/ c.state = "LinkEstablishing" /\ Called(Fails(Cleaned(c)))
      \/ Alive /\ Asking(c) /\ TimedOut(c) /\ Called(Cleaned(Fails(c)))
      \/ /\ Alive
         /\ \E next \in Only(c.state \in {"LinkEstablished", "AwaitingAdmission"}, Answers, "await"),
               link \in Only(c.linkState = "active", {"keepalive", "stale", "closed"}, "none"),
               upload \in Only(Asking(c) /\ c.request.outbound, {"again", "fails"}, "none"),
               fetch \in Only(Fetching(c), {"again", "fails"}, "none") :
              /\ MayAsk(c, next)
              /\ LET d == Driven(LinkTicked(Admitted(c, next), link), upload)
                     e == Watched(d, fetch)
                 IN  Called(Advanced(e, IF next \in Forms THEN next ELSE "unfit"))

-----------------------------------------------------------------------------
(* Results of the transport (poll_link_request, poll_endpoint_control).     *)

LinkRequestResult ==
    \E c \in Found :
      /\ c.asking /\ ~Waits(c, [type |-> "LinkRequest", link |-> c.link, seg |-> 0, gen |-> 0])
      /\ \/ Called([c EXCEPT !.asking = FALSE])
         \/ Called(Fails([c EXCEPT !.asking = FALSE]))

(* finish_completed_resource: the next segment, or the answer when it was   *)
(* the last one.                                                            *)
WithSegment(c, m) ==
    LET r == c.request.response
        kept == [r EXCEPT !.current = 0, !.next = r.next + 1,
                          !.parts = r.parts \cup {<<m.gen, m.seg>>}]
    IN  [c EXCEPT !.request = [c.request EXCEPT !.response = kept]]

SegmentKept(c, m, next) ==
    LET r == c.request.response
    IN  CASE ~Answering(c) -> c
          [] Answering(c) /\ next = "short" -> Fails(c)
          [] Answering(c) /\ next # "short" /\ r.next < r.total -> WithSegment(c, m)
          [] Answering(c) /\ next # "short" /\ r.next >= r.total -> Answered(WithSegment(c, m), next)

(* A message of an endpoint was sent.                                       *)
SendTaken ==
    \E c \in Found, m \in exchange.sends :
      LET d == [c EXCEPT !.sends = c.sends \ {m}]
      IN  /\ ~Waits(c, m) /\ m.type # "Proof"
          /\ Called(
               CASE m.type = "Final" -> [d EXCEPT !.destinations = c.destinations \ {m.link}]
                 [] Concerns(c, m) /\ Alive /\ m.type = "Request" -> Awaited(d)
                 [] OTHER -> d)

ProofTaken ==
    \E c \in Found, m \in exchange.sends, next \in Answers \cup {"short"} :
      LET d == [c EXCEPT !.sends = c.sends \ {m}]
      IN  /\ ~Waits(c, m) /\ m.type = "Proof" /\ MayAsk(c, next)
          /\ Called(IF Concerns(c, m) /\ Alive THEN SegmentKept(d, m, next) ELSE d)

(* It was rejected; or after 120 seconds there is no answer, or there never *)
(* will be one.                                                             *)
SendRejected ==
    \E c \in Found, m \in exchange.sends :
      LET d == [c EXCEPT !.sends = c.sends \ {m}]
          e == IF Concerns(c, m) THEN Fails(d) ELSE d
      IN  /\ ~Waits(c, m)
          /\ Called(IF m.type = "Final" THEN Unbinds(e, m.link) ELSE e)

SendUnanswered ==
    \E c \in Found, m \in exchange.sends :
      LET d == [c EXCEPT !.sends = c.sends \ {m}]
          e == IF m.type = "Final" THEN [d EXCEPT !.unheard = c.unheard \cup {m.link}] ELSE d
      IN  /\ Concerns(c, m) \/ m.type = "Final"
          /\ Called(IF Concerns(c, m) THEN Fails(e) ELSE e)

CleanupResult ==
    \E c \in Found, l \in exchange.cleanups :
      LET d == [c EXCEPT !.cleanups = c.cleanups \ {l}]
      IN  /\ ~Waits(c, [type |-> "Unbind", link |-> l, seg |-> 0, gen |-> 0])
          /\ \/ Called(IF Accepts(d)
                        THEN Queued(d, [type |-> "Deregister", link |-> l, seg |-> 0, gen |-> 0])
                        ELSE [d EXCEPT !.unheard = c.unheard \cup {l}])
             \/ Called([d EXCEPT !.unheard = c.unheard \cup {l}])

BindResult ==
    \E c \in Found :
      LET d == [c EXCEPT !.endpoint = "attached"]
          e == Sends(d, "Plain", 0)
      IN  /\ c.endpoint = "binding"
          /\ ~Waits(c, [type |-> "Bind", link |-> c.link, seg |-> 0, gen |-> 0])
          /\ \/ Called(IF Accepts(d) THEN [e EXCEPT !.state = "LinkEstablished"] ELSE e)
             \/ Called(Fails([c EXCEPT !.endpoint = "none"]))

EndpointEnds ==
    \E c \in Found :
      /\ c.endpoint # "none"
      /\ Called(Fails([c EXCEPT !.endpoint = "none"]))

-----------------------------------------------------------------------------
(* What the node sends (drain_events).                                      *)

(* handle_link_proof_with_owner.                                            *)
LinkProof ==
    \E c \in Found :
      LET bind == [type |-> "Bind", link |-> c.link, seg |-> 0, gen |-> 0]
          d == [c EXCEPT !.linkState = "active"]
      IN  /\ c.state = "LinkEstablishing" /\ c.endpoint = "none" /\ c.linkState = "pending"
          /\ ~Waits(c, [type |-> "LinkRequest", link |-> c.link, seg |-> 0, gen |-> 0])
          /\ Called(IF Accepts(d) THEN [Queued(d, bind) EXCEPT !.endpoint = "binding"] ELSE Fails(d))

(* handle_link_closed, also by an authenticated LinkClose.                  *)
LinkEnds ==
    \E c \in Found :
      /\ Alive /\ c.link # 0
      /\ Called(Fails([c EXCEPT !.linkState = "closed",
                                 !.request = IF Fetching(c)
                                             THEN [c.request EXCEPT !.response =
                                                     [c.request.response EXCEPT !.fetching = FALSE]]
                                             ELSE c.request]))

(* The node has the request packet; parts of a Resource are its business.   *)
Asked(c) == Asking(c) /\ ~Waits(c, Message(c, "Request", 0))

(* A Response packet with the ID of the request (handle_response_owned).    *)
ResponseArrives ==
    \E c \in Found, next \in Answers :
      /\ Attached /\ Asked(c) /\ MayAsk(c, next)
      /\ Called(Answered(c, next))

(* handle_resource_advertisement: a segment that was received or is under   *)
(* way is ignored, one before its turn fails the download.                  *)
Response(c) ==
    IF Answering(c) THEN c.request.response
    ELSE [total |-> TotalSegments[c.request.gen], next |-> 1, parts |-> {}, current |-> 0,
          fetching |-> FALSE]

Fetches(c, k) ==
    LET d == Retired(c)
        r == [Response(c) EXCEPT !.current = k, !.fetching = TRUE]
    IN  Sends([d EXCEPT !.state = "Receiving",
                        !.request = [d.request EXCEPT !.clock = FALSE, !.response = r]],
              "Plain", 0)

(* The node advertises a segment when it has the proof of the one before,   *)
(* which the transport may have sent before the client reads so.            *)
NodeAt(c, k) ==
    LET r == Response(c)
    IN  k <= r.next \/ (k = r.current + 1 /\ ~r.fetching /\ ~Waits(c, Message(c, "Proof", r.current)))

AdvertisementArrives ==
    Attached /\ Asked(exchange) /\
    \E c \in Found, k \in 1 .. TotalSegments[exchange.request.gen] :
      LET r == Response(c)
      IN  /\ NodeAt(c, k)
          /\ \/ Called(CASE k < r.next \/ k = r.current -> c
                          [] ~(k < r.next \/ k = r.current) /\ (k # r.next \/ r.current # 0) -> Fails(c)
                          [] k = r.next /\ r.current = 0 -> Fetches(c, k))
             \/ Called(Fails(c))

(* complete_resource: a whole segment is proved; it is kept when the proof  *)
(* was sent.                                                                *)
Completes(c) ==
    LET d == Sends(c, "Proof", c.request.response.current)
    IN  IF d.state = "Failed" THEN d
        ELSE [d EXCEPT !.request = [c.request EXCEPT
                 !.response = [c.request.response EXCEPT !.fetching = FALSE]]]

(* handle_resource_part: the next parts are asked for, which leaves the     *)
(* client Receiving even where that failed; or the segment is whole, or it  *)
(* is broken.                                                               *)
PartArrives ==
    \E c \in Found :
      /\ Attached /\ Fetching(c)
      /\ \/ Called([Sends(c, "Plain", 0) EXCEPT !.state = "Receiving"])
         \/ Called(Completes(c))
         \/ Called(Fails(c))

(* handle_resource_hmu; handle_resource_cancel, of a segment that is not    *)
(* settled or of the request as a Resource.                                 *)
HashmapArrives ==
    \E c \in Found :
      Attached /\ Fetching(c) /\ (Called(Sends(c, "Plain", 0)) \/ Called(Fails(c)))

ResourceCancelled ==
    \E c \in Found :
      /\ Attached
      /\ \/ Asking(c) /\ c.request.outbound /\ Called(Fails(c))
         \/ /\ Answering(c) /\ c.request.response.current # 0
            /\ Called(Fails([c EXCEPT !.request = [c.request EXCEPT !.response =
                                 [c.request.response EXCEPT !.fetching = FALSE]]]))

(* handle_outbound_request: parts and hashmaps, or a cancel; and            *)
(* handle_outbound_proof, from which the answer is waited for.              *)
UploadAsked ==
    \E c \in Found :
      /\ Attached /\ Asking(c) /\ c.request.outbound
      /\ \/ Called(Sends(c, "Upload", 0))
         \/ Called(Fails(Sends(c, "Upload", 0)))
         \/ Called(Fails(c))

UploadProved ==
    \E c \in Found :
      Attached /\ Asking(c) /\ c.request.outbound /\ Called(Awaited(Retired(c)))

-----------------------------------------------------------------------------
ExchangeInit ==
    exchange = [state |-> "Idle", link |-> 0, linkState |-> "none", endpoint |-> "none",
                asking |-> FALSE, released |-> FALSE, request |-> NoRequest, made |-> 0, links |-> 0,
                staged |-> <<>>, room |-> 0, sends |-> {}, cleanups |-> {}, destinations |-> {},
                unheard |-> {}]

Calls == StartDownload \/ CancelDownload \/ Tick
Results == LinkRequestResult \/ SendTaken \/ ProofTaken \/ SendRejected \/ SendUnanswered \/ CleanupResult
           \/ BindResult \/ EndpointEnds
Arrives == LinkProof \/ LinkEnds \/ ResponseArrives \/ AdvertisementArrives \/ PartArrives
           \/ HashmapArrives \/ ResourceCancelled \/ UploadAsked \/ UploadProved

ExchangeNext == Calls \/ Results \/ Arrives

ExchangeSpec == ExchangeInit /\ [][ExchangeNext]_exchangeVars

-----------------------------------------------------------------------------
ResponseType ==
    [total : Nat, next : Nat \ {0}, parts : SUBSET (Requests \X Nat), current : Nat,
     fetching : BOOLEAN]

RequestType ==
    [gen : Requests, sender : BOOLEAN, clock : BOOLEAN, outbound : BOOLEAN,
     response : ResponseType \cup {NoResponse}]

MessageType ==
    [type : EndpointTypes \cup {"Register", "LinkRequest", "Bind", "Final", "Unbind", "Deregister"},
     link : 0 .. MaxLinks, seg : Nat, gen : 0 .. MaxRequests]

ExchangeTypeOK ==
    /\ exchange \in
         [state : Over \cup {"LinkEstablishing", "LinkEstablished", "Requested", "Receiving",
                             "AwaitingAdmission"},
          link : 0 .. MaxLinks, linkState : {"none", "pending", "active", "closed"},
          endpoint : {"none", "binding", "attached"}, asking : BOOLEAN, released : BOOLEAN,
          request : RequestType \cup {NoRequest}, made : 0 .. MaxRequests, links : 0 .. MaxLinks,
          staged : Seq(MessageType), room : {0}, sends : SUBSET MessageType,
          cleanups : SUBSET (1 .. MaxLinks), destinations : SUBSET (1 .. MaxLinks),
          unheard : SUBSET (1 .. MaxLinks)]
    /\ Len(exchange.staged) <= StageLimit

(* An answer is made of the segments of one request, each once and in turn, *)
(* whichever proofs of earlier requests the transport still reports         *)
(* (poll_endpoint_send_results, finish_completed_resource,                  *)
(* handle_resource_advertisement).                                          *)
AnswerWhole ==
    LET q == exchange.request
        r == q.response
    IN  Answering(exchange) =>
          /\ r.parts = {q.gen} \X (1 .. r.next - 1)
          /\ r.current \in {0, r.next} /\ r.next <= r.total + 1
          /\ r.fetching => r.current = r.next

(* A client that waits has a request, and some deadline runs for it: of the *)
(* send, the upload, the answer or its transfer.  So whatever is lost, the  *)
(* download ends (queue_link_endpoint_with_success, handle_outbound_proof,  *)
(* tick).                                                                   *)
ClockRuns ==
    LET q == exchange.request
    IN  /\ exchange.state \in {"Requested", "Receiving"} => Asking(exchange)
        /\ Alive /\ Asking(exchange) =>
             \/ q.clock \/ q.outbound \/ Answering(exchange)
             \/ Message(exchange, "Request", 0) \in exchange.sends

(* No Link outlives its download: a destination that the transport still    *)
(* has for another Link is on its way out, unless the release found no room *)
(* or its answer was lost (cleanup, queue_endpoint_cleanup,                 *)
(* poll_endpoint_send_results).                                             *)
LinksReleased ==
    \A l \in exchange.destinations :
      \/ l = exchange.link \/ l \in exchange.unheard \/ l \in exchange.cleanups
      \/ \E m \in exchange.sends : m.type = "Final" /\ m.link = l
      \/ \E i \in DOMAIN exchange.staged :
           exchange.staged[i].type = "Deregister" /\ exchange.staged[i].link = l
=============================================================================
