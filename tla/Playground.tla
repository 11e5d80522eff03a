----------------------------- MODULE Playground -----------------------------
(***************************************************************************)
(* The playground: one page that sends a prompt to every model pane it     *)
(* shows, and the route that answers each pane's request with a serving    *)
(* key minted for that exchange.                                           *)
(*                                                                         *)
(* The page is single threaded, but its handlers close over the panes of   *)
(* the last render, while a streamed delta is queued on the latest panes.  *)
(* The user may switch, add and remove panes while replies stream. The     *)
(* route runs elsewhere and can fail, die or lose its client at any step.  *)
(***************************************************************************)
EXTENDS Integers, Sequences, SequencesExt

CONSTANTS
    Slugs,             \* the catalog's models
    InitialSlugs,      \* the models of the page's URL
    CompareLimit,      \* COMPARE_LIMIT, the most panes
    Deltas,            \* bound: text events of one reply
    MaxSends           \* bound: prompts sent from the page

ASSUME PlaygroundConstants ==
    /\ InitialSlugs \in Seq(Slugs) /\ InitialSlugs # <<>>
    /\ IsInjective(InitialSlugs) /\ Len(InitialSlugs) <= CompareLimit
    /\ {CompareLimit, Deltas, MaxSends} \subseteq Nat \ {0}

VARIABLES
    panes,             \* the panes after every queued update
    rendered,          \* the panes the event handlers close over
    sends,             \* prompts sent so far
    streaming,         \* streamingRef: the send that holds it, 0 for none
    aborters,          \* abortersRef: slug -> the send whose controller it is
    exchange,          \* one per send and slug: browser, route, key, wire
    mounted

vars == <<panes, rendered, sends, streaming, aborters, exchange, mounted>>
-----------------------------------------------------------------------------
Sends == 1 .. MaxSends

(* The events of one exchange in the order the route emits them: the       *)
(* deltas (the usage report lands like the last of them), an error.        *)
Error == Deltas + 1
Event == 1 .. Error

(* Of a pane's turns only the last is ever written. send and slug are      *)
(* history: what appended the turn; got is what streamed into it last.     *)
Got(send, slug, event) == [send |-> send, slug |-> slug, event |-> event]

Turn ==
    [send : Sends, slug : Slugs,
     got : [send : Sends, slug : Slugs, event : Event \cup {0}]]

NoTurn == [send |-> 0]

Pane == [slug : Slugs, turn : Turn \cup {NoTurn}]

(* client: runPane in the browser ("stopped" once its controller aborted); *)
(* signal: request.signal in the route; wire: events not yet read, empty   *)
(* once nobody reads; sent: deltas emitted, 0 again after the stream;      *)
(* fault: the update that revokes the key failed.                          *)
Exchange ==
    [client : {"none", "open", "stopped", "closed"}, signal : BOOLEAN,
     route : {"none", "asked", "calling", "streaming", "failing", "closing",
              "closed", "dead"},
     key : {"none", "live", "revoked"}, fault : BOOLEAN,
     sent : 0 .. Deltas, wire : Seq(Event)]

NoExchange ==
    [client |-> "none", signal |-> FALSE, route |-> "none", key |-> "none",
     fault |-> FALSE, sent |-> 0, wire |-> <<>>]

Opened == [NoExchange EXCEPT !.client = "open", !.route = "asked"]

TypeOK ==
    /\ \A list \in {panes, rendered} :
          /\ list \in Seq(Pane) /\ Len(list) \in 1 .. CompareLimit
          /\ \A i, j \in DOMAIN list : list[i].slug = list[j].slug => i = j
          /\ \A i \in DOMAIN list : list[i].turn.send <= sends
    /\ sends \in 0 .. MaxSends
    /\ streaming \in 0 .. sends
    /\ aborters \in [Slugs -> 0 .. sends]
    /\ exchange \in [Sends \X Slugs -> Exchange]
    /\ mounted \in BOOLEAN

SlugsOf(list) == {list[i].slug : i \in DOMAIN list}

Init ==
    /\ panes = [i \in DOMAIN InitialSlugs |-> [slug |-> InitialSlugs[i], turn |-> NoTurn]]
    /\ rendered = panes
    /\ sends = 0
    /\ streaming = 0
    /\ aborters = [s \in Slugs |-> 0]
    /\ exchange = [e \in Sends \X Slugs |-> NoExchange]
    /\ mounted = TRUE
-----------------------------------------------------------------------------
(* The page.                                                               *)

UpdatedFault(e, event) ==
    [i \in DOMAIN panes |->
        IF panes[i].turn = NoTurn THEN panes[i]
        ELSE [panes[i] EXCEPT !.turn.got = Got(e[1], e[2], event)]]

(* The last turn of the pane with this slug takes an event; with no such   *)
(* pane, or a pane without a turn, the event is dropped.                   *)
UpdatedLastAssistant(e, event) ==
    [i \in DOMAIN panes |->
        IF panes[i].slug # e[2] \/ panes[i].turn = NoTurn THEN panes[i]
        ELSE [panes[i] EXCEPT !.turn.got = Got(e[1], e[2], event)]]

UpdateLastAssistant(e, event) == panes' = UpdatedLastAssistant(e, event)

Render ==
    /\ mounted
    /\ rendered # panes
    /\ rendered' = panes
    /\ UNCHANGED <<panes, sends, streaming, aborters, exchange, mounted>>

(* A handler replaces the panes by what it computed from the rendered      *)
(* ones; React renders its update before the next user event.              *)
ApplyPanes(next) ==
    /\ panes' = next
    /\ rendered' = next

(* The exchanges whose controllers are the ones of these slugs.            *)
Controlled(slugs) == {<<aborters[s], s>> : s \in {x \in slugs : aborters[x] # 0}}

Aborted(es) ==
    [e \in DOMAIN exchange |->
        IF e \in es /\ exchange[e].client = "open"
        THEN [exchange[e] EXCEPT !.client = "stopped", !.signal = TRUE, !.wire = <<>>]
        ELSE exchange[e]]

(* The picker of a single pane relabels it and keeps its transcript.       *)
SelectModel(slug) ==
    /\ mounted /\ Len(rendered) = 1
    /\ slug # rendered[1].slug
    /\ ApplyPanes(<<[rendered[1] EXCEPT !.slug = slug]>>)
    /\ UNCHANGED <<sends, streaming, aborters, exchange, mounted>>

Addable(slug) == slug \notin SlugsOf(rendered) /\ Len(rendered) < CompareLimit

AddPane(slug) ==
    /\ mounted
    /\ Addable(slug)
    /\ ApplyPanes(Append(rendered, [slug |-> slug, turn |-> NoTurn]))
    /\ UNCHANGED <<sends, streaming, aborters, exchange, mounted>>

(* No two panes have one slug, so the filter drops exactly one pane.       *)
RemovePane(slug) ==
    /\ mounted /\ Len(rendered) > 1
    /\ exchange' = Aborted(Controlled({slug}))
    /\ \E i \in DOMAIN rendered :
          rendered[i].slug = slug /\ ApplyPanes(RemoveAt(rendered, i))
    /\ UNCHANGED <<sends, streaming, aborters, mounted>>

AbortAll ==
    /\ mounted /\ streaming # 0
    /\ exchange' = Aborted(Controlled(Slugs))
    /\ UNCHANGED <<panes, rendered, sends, streaming, aborters, mounted>>

Unmount ==
    /\ mounted
    /\ mounted' = FALSE
    /\ exchange' = Aborted(Controlled(Slugs))
    /\ UNCHANGED <<panes, rendered, sends, streaming, aborters>>

MaySendFault == TRUE

MaySend == streaming = 0

(* One send over every rendered pane. The panes in bad have no request to  *)
(* send (a model gone from the catalog): with one pane that is a notice    *)
(* and nothing happens, in a comparison the pane shows the error. Routes   *)
(* of earlier sends that nobody reads any more run on by themselves; the   *)
(* model follows them up to here.                                          *)
Send(bad) ==
    LET send == sends + 1
        asked == SlugsOf(rendered) \ bad
        placeholder(slug) ==
            [send |-> send, slug |-> slug,
             got |-> Got(send, slug, IF slug \in bad THEN Error ELSE 0)]
    IN  /\ mounted /\ send \in Sends
        /\ MaySend
        /\ bad \subseteq SlugsOf(rendered)
        /\ Len(rendered) = 1 => bad = {}
        /\ sends' = send
        /\ streaming' = send
        /\ ApplyPanes([i \in DOMAIN panes |->
              [panes[i] EXCEPT !.turn = placeholder(panes[i].slug)]])
        /\ aborters' = [s \in Slugs |-> IF s \in asked THEN send ELSE aborters[s]]
        /\ exchange' = [e \in DOMAIN exchange |->
              IF e[1] = send /\ e[2] \in asked THEN Opened
              ELSE IF exchange[e].client = "closed" THEN NoExchange ELSE exchange[e]]
        /\ UNCHANGED mounted

(* runPane reads the next event of its stream.                             *)
RunPane(e) ==
    /\ exchange[e].client = "open" /\ exchange[e].wire # <<>>
    /\ UpdateLastAssistant(e, Head(exchange[e].wire))
    /\ exchange' = [exchange EXCEPT ![e].wire = Tail(@)]
    /\ UNCHANGED <<rendered, sends, streaming, aborters, mounted>>

(* The connection breaks: the pane shows an error, the controller goes and *)
(* the route sees its client leave.                                        *)
Disconnect(e) ==
    /\ exchange[e].client = "open" /\ exchange[e].route # "closed"
    /\ UpdateLastAssistant(e, Error)
    /\ aborters' = [aborters EXCEPT ![e[2]] = 0]
    /\ exchange' = [exchange EXCEPT ![e].client = "closed", ![e].signal = TRUE,
                                      ![e].wire = <<>>]
    /\ UNCHANGED <<rendered, sends, streaming, mounted>>

EndsFault(x) == x.client # "closed" /\ x.wire = <<>> /\ x.route = "closed"

Ends(x) ==
    \/ x.client = "stopped"
    \/ x.client = "open" /\ x.wire = <<>> /\ x.route = "closed"

(* runPane ends, after its last event or its abort, and its controller is  *)
(* removed under its slug.                                                 *)
PaneSettles(e) ==
    /\ Ends(exchange[e])
    /\ exchange' = [exchange EXCEPT ![e].client = "closed"]
    /\ aborters' = [aborters EXCEPT ![e[2]] = 0]
    /\ UNCHANGED <<panes, rendered, sends, streaming, mounted>>

(* Promise.allSettled: the send is over once none of its panes runs.       *)
SendSettles ==
    /\ streaming # 0
    /\ \A s \in Slugs : exchange[<<streaming, s>>].client \notin {"open", "stopped"}
    /\ streaming' = 0
    /\ UNCHANGED <<panes, rendered, sends, aborters, exchange, mounted>>
-----------------------------------------------------------------------------
(* The route, one run per exchange.                                        *)

Unread(x, event) == IF x.signal THEN x ELSE [x EXCEPT !.wire = Append(@, event)]

Route(e, from, x) ==
    /\ exchange[e].route = from
    /\ exchange' = [exchange EXCEPT ![e] = x]
    /\ UNCHANGED <<panes, rendered, sends, streaming, aborters, mounted>>

(* No session, a malformed body, a foreign org, a banned org, or a mint    *)
(* that failed: an error answer and no key.                                *)
RefuseExchange(e) ==
    Route(e, "asked", [Unread(exchange[e], Error) EXCEPT !.route = "closed"])

MintPlaygroundServingKey(e) ==
    Route(e, "asked", [exchange[e] EXCEPT !.route = "calling", !.key = "live"])

StreamChatCompletion(e) ==
    /\ ~exchange[e].signal
    /\ Route(e, "calling", [exchange[e] EXCEPT !.route = "streaming"])

CallThrows(e) ==
    Route(e, "calling", [exchange[e] EXCEPT !.route = "failing"])

EmitDelta(e) ==
    /\ ~exchange[e].signal /\ exchange[e].sent < Deltas
    /\ Route(e, "streaming",
             [exchange[e] EXCEPT !.sent = @ + 1, !.wire = Append(@, exchange[e].sent + 1)])

UpstreamEnds(e) ==
    /\ ~exchange[e].signal
    /\ Route(e, "streaming", [exchange[e] EXCEPT !.route = "closing", !.sent = 0])

(* The upstream answered an error or its stream broke, or the read was     *)
(* aborted with the request, which nobody is left to hear of.              *)
UpstreamFails(e) ==
    Route(e, "streaming", [Unread(exchange[e], Error) EXCEPT !.route = "closing", !.sent = 0])

KeyAfterFault(x, ok) == IF ok /\ ~x.signal THEN "revoked" ELSE x.key

KeyAfter(x, ok) == IF ok THEN "revoked" ELSE x.key

(* The finally block of the stream. A failed update is not noticed.        *)
Revoke(e, ok) ==
    Route(e, "closing",
          [exchange[e] EXCEPT !.route = "closed", !.fault = ~ok,
                              !.key = KeyAfter(exchange[e], ok)])

(* The catch block around the call, then the error answer.                 *)
RevokeAndThrow(e, ok) ==
    Route(e, "failing",
          [Unread(exchange[e], Error) EXCEPT !.route = "closed", !.fault = ~ok,
                                             !.key = KeyAfter(exchange[e], ok)])

(* The serving process dies; the browser sees its connection break.        *)
RouteDies(e) ==
    /\ exchange[e].route \in {"asked", "calling", "streaming", "failing", "closing"}
    /\ Route(e, exchange[e].route, [exchange[e] EXCEPT !.route = "dead"])
-----------------------------------------------------------------------------
Next ==
    \/ Render \/ AbortAll \/ Unmount \/ SendSettles
    \/ \E s \in Slugs : SelectModel(s) \/ AddPane(s) \/ RemovePane(s)
    \/ \E bad \in SUBSET Slugs : Send(bad)
    \/ \E e \in Sends \X Slugs :
          \/ RunPane(e) \/ Disconnect(e) \/ PaneSettles(e)
          \/ RefuseExchange(e) \/ MintPlaygroundServingKey(e)
          \/ StreamChatCompletion(e) \/ CallThrows(e) \/ EmitDelta(e)
          \/ UpstreamEnds(e) \/ UpstreamFails(e) \/ RouteDies(e)
          \/ \E ok \in BOOLEAN : Revoke(e, ok) \/ RevokeAndThrow(e, ok)

Spec == Init /\ [][Next]_vars

(* What the page's event loop and a live serving process do by themselves. *)
(* Nothing is assumed of the upstream, which may stay silent for ever.     *)
RouteGoesOn(e) ==
    \/ RefuseExchange(e) \/ MintPlaygroundServingKey(e)
    \/ exchange[e].signal /\ (CallThrows(e) \/ UpstreamFails(e))
    \/ \E ok \in BOOLEAN : Revoke(e, ok) \/ RevokeAndThrow(e, ok)

Fairness ==
    /\ WF_vars(SendSettles)
    /\ \A e \in Sends \X Slugs : WF_vars(PaneSettles(e)) /\ WF_vars(RouteGoesOn(e))

LiveSpec == Spec /\ Fairness
-----------------------------------------------------------------------------
(* The exchange of a slug in the last send.                                *)
Latest(s) == IF sends = 0 THEN NoExchange ELSE exchange[<<sends, s>>]

(* What streams into a turn is the reply to the prompt above it, by the    *)
(* model its placeholder was made for, whatever panes were switched, added *)
(* or removed meanwhile (updateLastAssistant and the guard of send).       *)
RepliesInOwnTurn ==
    \A i \in DOMAIN panes : panes[i].turn # NoTurn =>
        /\ panes[i].turn.got.send = panes[i].turn.send
        /\ panes[i].turn.got.slug = panes[i].turn.slug

(* Every pane that still reads holds a controller under its slug, and the  *)
(* send it belongs to is not over, so Stop, unmounting and the next send   *)
(* reach it (abortersRef and streamingRef).                                *)
StopReachesEveryStream ==
    \A e \in Sends \X Slugs :
        exchange[e].client = "open" => aborters[e[2]] = e[1] /\ streaming = e[1]

(* A serving key is live only while the route that minted it still works   *)
(* on its exchange, unless that process died or its update of the key      *)
(* failed: whoever stopped reading, and however the call or the stream     *)
(* ended (the catch and the finally block of the chat route).              *)
KeyDiesWithItsRoute ==
    \A e \in Sends \X Slugs :
        exchange[e].key = "live" =>
            \/ exchange[e].route \in {"calling", "streaming", "failing", "closing", "dead"}
            \/ exchange[e].fault

(* A request its reader left stops calling upstream and its key is         *)
(* revoked, unless the process died or the update of the key failed, or    *)
(* the next send took its place in the model (the forwarded signal and     *)
(* both revocations in the chat route).                                    *)
AbortEndsExchange ==
    \A s \in Slugs :
        Latest(s).signal ~>
            \/ Latest(s).route = "dead" \/ ~Latest(s).signal
            \/ Latest(s).route = "closed" /\ (Latest(s).key = "live" => Latest(s).fault)

(* Once every pane of a send was stopped the page can send again, even if  *)
(* no upstream ever answers (allSettled and the finally block of send).    *)
StopFreesComposer ==
    (streaming # 0 /\ \A s \in Slugs : Latest(s).client # "open") ~> streaming = 0

(* Every reply being paid for can be seen: some pane still has the turn it *)
(* streams into (the comment on abortersRef: a removed pane's stream must  *)
(* not go on).                                                             *)
StreamsAreShown ==
    mounted => \A e \in Sends \X Slugs :
        exchange[e].client = "open" =>
            \E i \in DOMAIN panes :
                panes[i].turn # NoTurn /\ panes[i].turn.send = e[1]
                                       /\ panes[i].turn.slug = e[2]
=============================================================================
