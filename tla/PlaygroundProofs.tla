-------------------------- MODULE PlaygroundProofs --------------------------
(***************************************************************************)
(* Proofs about the playground. The difficult one is that a reply lands in *)
(* the turn it answers although a pane can be relabelled, added and        *)
(* removed under a running stream. Two regimes explain it: until a pane is *)
(* relabelled, every turn belongs to the slug its pane shows and every     *)
(* open stream has its pane; a pane can only be relabelled when it is the  *)
(* only one, and from then on up to the next prompt every turn and every   *)
(* open stream belongs to one slug.                                        *)
(***************************************************************************)
EXTENDS Playground, SequenceTheorems, TLAPS

Exchanges == Sends \X Slugs

Answer == [send : Sends, slug : Slugs, event : Event \cup {0}]

HasTurn(pane) == pane.turn # NoTurn

(* An open stream is read; a running one still holds its send.             *)
Open(e) == exchange[e].client = "open"

Runs(e) == exchange[e].client \in {"open", "stopped"}

(* A list of panes the page can hold, its turns answered in place.         *)
Listed(list) ==
    /\ list \in Seq(Pane) /\ Len(list) \in 1 .. CompareLimit
    /\ \A i, j \in DOMAIN list : list[i].slug = list[j].slug => i = j

OwnTurns(list, last) ==
    \A i \in DOMAIN list : HasTurn(list[i]) =>
        /\ list[i].turn.send = last
        /\ list[i].turn.got.send = list[i].turn.send
        /\ list[i].turn.got.slug = list[i].turn.slug

(* The rendered panes differ from the latest ones in what streamed at most.*)
SamePane(p, q) ==
    /\ p.slug = q.slug
    /\ HasTurn(p) <=> HasTurn(q)
    /\ HasTurn(p) => p.turn.slug = q.turn.slug

SamePanes(list, next) ==
    /\ Len(next) = Len(list)
    /\ \A i \in DOMAIN list : SamePane(list[i], next[i])

(* The two regimes of a list of panes and the streams being read.          *)
Unswitched(list, open) ==
    /\ \A i \in DOMAIN list : HasTurn(list[i]) => list[i].turn.slug = list[i].slug
    /\ \A e \in open :
          \E i \in DOMAIN list : list[i].slug = e[2] /\ HasTurn(list[i])

Switched(list, open) ==
    \E s \in Slugs :
        /\ \A i \in DOMAIN list : HasTurn(list[i]) => list[i].turn.slug = s
        /\ \A e \in open : e[2] = s

Regime(list, open) == Unswitched(list, open) \/ Switched(list, open)

OpenStreams == {e \in Exchanges : Open(e)}

Streams ==
    /\ sends \in 0 .. MaxSends
    /\ streaming \in {0, sends}
    /\ aborters \in [Slugs -> 0 .. sends]
    /\ mounted \in BOOLEAN
    /\ \A e \in Exchanges : Runs(e) => e[1] = streaming
    /\ \A e \in Exchanges : Open(e) => aborters[e[2]] = e[1]

Lists ==
    /\ Listed(panes) /\ Listed(rendered)
    /\ OwnTurns(panes, sends) /\ OwnTurns(rendered, sends)
    /\ SamePanes(panes, rendered)
    /\ Regime(panes, OpenStreams)

KeyKept(x) ==
    x.key = "live" =>
        \/ x.route \in {"calling", "streaming", "failing", "closing", "dead"}
        \/ x.fault

Served ==
    /\ exchange \in [Exchanges -> Exchange]
    /\ \A e \in Exchanges : KeyKept(exchange[e])

PlaygroundInv == Streams /\ Lists /\ Served
-----------------------------------------------------------------------------
(* Panes and turns.                                                        *)

LEMMA Bounds == /\ CompareLimit \in Nat \ {0} /\ Deltas \in Nat \ {0}
                /\ MaxSends \in Nat \ {0}
BY PlaygroundConstants

LEMMA TurnFields ==
    ASSUME NEW t \in Turn
    PROVE  /\ t # NoTurn
           /\ t.send \in Sends /\ t.slug \in Slugs /\ t.got \in Answer
<1>1. t.send \in 1 .. MaxSends /\ t.slug \in Slugs /\ t.got \in Answer
  BY DEF Turn, Sends, Answer
<1>2. t.send # 0
  BY <1>1, Bounds
<1>3. NoTurn.send = 0
  BY DEF NoTurn
<1> QED
  BY <1>1, <1>2, <1>3 DEF Sends

LEMMA PaneFields ==
    ASSUME NEW p \in Pane
    PROVE  /\ p.slug \in Slugs
           /\ HasTurn(p) => p.turn \in Turn
           /\ ~HasTurn(p) => p.turn = NoTurn
BY DEF Pane, HasTurn

LEMMA AnswerMade ==
    ASSUME NEW e \in Exchanges, NEW event \in Event \cup {0}
    PROVE  /\ Got(e[1], e[2], event) \in Answer
           /\ Got(e[1], e[2], event).send = e[1]
           /\ Got(e[1], e[2], event).slug = e[2]
BY DEF Got, Answer, Exchanges

(* Writing into the turn of a pane changes nothing but what streamed.      *)
LEMMA WrittenTurn ==
    ASSUME NEW p \in Pane, HasTurn(p), NEW g \in Answer
    PROVE  LET q == [p EXCEPT !.turn.got = g]
           IN  /\ q \in Pane /\ q.slug = p.slug /\ HasTurn(q)
               /\ q.turn.send = p.turn.send /\ q.turn.slug = p.turn.slug
               /\ q.turn.got = g
<1> DEFINE q == [p EXCEPT !.turn.got = g]
<1>1. p.turn \in Turn
  BY PaneFields
<1>2. PICK t : t = [p.turn EXCEPT !.got = g]
  OBVIOUS
<1>3. /\ t \in Turn /\ t.got = g
      /\ t.send = p.turn.send /\ t.slug = p.turn.slug
  BY <1>1, <1>2 DEF Turn, Answer
<1>4. q = [p EXCEPT !.turn = t]
  BY <1>2 DEF Pane
<1>5. q \in Pane /\ q.slug = p.slug /\ q.turn = t
  BY <1>3, <1>4 DEF Pane
<1> QED
  BY <1>3, <1>5, TurnFields DEF HasTurn

LEMMA ListFacts ==
    ASSUME NEW list, Listed(list)
    PROVE  /\ DOMAIN list = 1 .. Len(list) /\ Len(list) \in Nat
           /\ \A i \in DOMAIN list : list[i] \in Pane
BY Bounds DEF Listed

(* Lists that show the same panes are in the same regime, and a stream     *)
(* that ends disturbs neither.                                             *)
LEMMA RegimeKept ==
    ASSUME NEW list, NEW next, Listed(list), Listed(next), SamePanes(list, next),
           NEW open, NEW rest \in SUBSET open, Regime(list, open)
    PROVE  Regime(next, rest)
<1>1. DOMAIN next = DOMAIN list
  BY ListFacts DEF SamePanes
<1>2. ASSUME Unswitched(list, open) PROVE Unswitched(next, rest)
  BY <1>1, <1>2 DEF SamePanes, SamePane, Unswitched
<1>3. ASSUME Switched(list, open) PROVE Switched(next, rest)
  BY <1>1, <1>3 DEF SamePanes, SamePane, Switched
<1> QED
  BY <1>2, <1>3 DEF Regime

LEMMA SameReflexive == \A list : SamePanes(list, list)
BY DEF SamePanes, SamePane

LEMMA SameSymmetric ==
    ASSUME NEW list, NEW next, Listed(list), Listed(next), SamePanes(list, next)
    PROVE  SamePanes(next, list)
<1>1. DOMAIN next = DOMAIN list
  BY ListFacts DEF SamePanes
<1> QED
  BY <1>1 DEF SamePanes, SamePane

LEMMA SameTransitive ==
    ASSUME NEW list, NEW next, NEW last, Listed(list), Listed(next), Listed(last),
           SamePanes(list, next), SamePanes(next, last)
    PROVE  SamePanes(list, last)
<1>1. DOMAIN next = DOMAIN list
  BY ListFacts DEF SamePanes
<1> QED
  BY <1>1 DEF SamePanes, SamePane

(* In either regime a pane that shows the slug of an open stream and has a *)
(* turn has the turn of that stream.                                       *)
LEMMA TurnOfStream ==
    ASSUME NEW list, NEW open, Regime(list, open), NEW e \in open,
           NEW i \in DOMAIN list, HasTurn(list[i]), list[i].slug = e[2]
    PROVE  list[i].turn.slug = e[2]
BY DEF Regime, Unswitched, Switched

(* An event of an open stream leaves the panes what they are and lands in  *)
(* a turn of its own.                                                      *)
LEMMA EventLands ==
    ASSUME NEW e \in Exchanges, NEW event \in Event, Lists, Open(e), e[1] = sends
    PROVE  LET next == UpdatedLastAssistant(e, event)
           IN  /\ Listed(next) /\ OwnTurns(next, sends) /\ SamePanes(panes, next)
<1> DEFINE next == UpdatedLastAssistant(e, event)
           g == Got(e[1], e[2], event)
           q(i) == [panes[i] EXCEPT !.turn.got = g]
<1>1. /\ Listed(panes) /\ OwnTurns(panes, sends) /\ Regime(panes, OpenStreams)
      /\ DOMAIN panes = 1 .. Len(panes) /\ Len(panes) \in Nat
      /\ \A i \in DOMAIN panes : panes[i] \in Pane
  BY ListFacts DEF Lists
<1>2. g \in Answer /\ g.send = e[1] /\ g.slug = e[2]
  BY AnswerMade
<1>3. /\ DOMAIN next = DOMAIN panes
      /\ \A i \in DOMAIN panes :
            \/ next[i] = panes[i] /\ (panes[i].slug # e[2] \/ ~HasTurn(panes[i]))
            \/ next[i] = q(i) /\ panes[i].slug = e[2] /\ HasTurn(panes[i])
  BY DEF UpdatedLastAssistant, HasTurn
<1>4. ASSUME NEW i \in DOMAIN panes, HasTurn(panes[i])
      PROVE  /\ q(i) \in Pane /\ q(i).slug = panes[i].slug /\ HasTurn(q(i))
             /\ q(i).turn.send = panes[i].turn.send
             /\ q(i).turn.slug = panes[i].turn.slug /\ q(i).turn.got = g
  BY <1>1, <1>2, <1>4, WrittenTurn
<1> HIDE DEF g, q, next
<1>5. \A i \in DOMAIN panes : next[i] \in Pane /\ SamePane(panes[i], next[i])
  BY <1>1, <1>3, <1>4 DEF SamePane
<1>6. next \in Seq(Pane) /\ Len(next) = Len(panes)
  <2>1. next = [i \in 1 .. Len(panes) |-> next[i]]
    BY <1>1, <1>3 DEF next, UpdatedLastAssistant
  <2> QED
    BY <2>1, <1>1, <1>5
<1>7. Listed(next) /\ SamePanes(panes, next)
  BY <1>1, <1>3, <1>5, <1>6 DEF Listed, SamePanes, SamePane
<1>8. OwnTurns(next, sends)
  <2> SUFFICES ASSUME NEW i \in DOMAIN panes, HasTurn(next[i])
      PROVE  /\ next[i].turn.send = sends
             /\ next[i].turn.got.send = next[i].turn.send
             /\ next[i].turn.got.slug = next[i].turn.slug
    BY <1>3 DEF OwnTurns
  <2>1. CASE next[i] = panes[i]
    BY <2>1, <1>1 DEF OwnTurns
  <2>2. CASE next[i] = q(i) /\ panes[i].slug = e[2] /\ HasTurn(panes[i])
    <3>1. panes[i].turn.slug = e[2]
      BY <2>2, <1>1, TurnOfStream DEF OpenStreams
    <3> QED
      BY <2>2, <3>1, <1>1, <1>2, <1>4 DEF OwnTurns
  <2> QED
    BY <1>3, <2>1, <2>2
<1> QED
  BY <1>7, <1>8 DEF next

(* What a handler computed becomes the latest and the rendered panes.      *)
LEMMA Applied ==
    ASSUME NEW next, ApplyPanes(next), Listed(next), OwnTurns(next, sends'),
           Regime(next, OpenStreams')
    PROVE  Lists'
BY SameReflexive DEF ApplyPanes, Lists

LEMMA RenderedRegime ==
    ASSUME Lists
    PROVE  Regime(rendered, OpenStreams)
<1>1. OpenStreams \in SUBSET OpenStreams
  OBVIOUS
<1> QED
  BY <1>1, RegimeKept DEF Lists
-----------------------------------------------------------------------------
(* The handlers that change which panes there are.                         *)

LEMMA Removed ==
    ASSUME NEW S, NEW s \in Seq(S), NEW i \in 1 .. Len(s)
    PROVE  LET r == RemoveAt(s, i)
           IN  /\ r \in Seq(S) /\ Len(r) = Len(s) - 1
               /\ \A j \in 1 .. Len(r) : r[j] = s[IF j < i THEN j ELSE j + 1]
<1> DEFINE front == SubSeq(s, 1, i - 1)
           back == SubSeq(s, i + 1, Len(s))
<1>1. /\ front \in Seq(S) /\ Len(front) = i - 1
      /\ \A j \in 1 .. i - 1 : front[j] = s[j]
  <2>1. \A k \in 1 .. i - 1 : s[k] \in S
    OBVIOUS
  <2> QED
    BY <2>1, SubSeqProperties
<1>2. /\ back \in Seq(S) /\ Len(back) = Len(s) - i
      /\ \A j \in 1 .. Len(s) - i : back[j] = s[i + j]
  BY SubSeqProperties
<1> HIDE DEF front, back
<1>3. /\ front \o back \in Seq(S)
      /\ Len(front \o back) = Len(s) - 1
      /\ \A j \in 1 .. Len(s) - 1 :
            (front \o back)[j] = IF j < i THEN front[j] ELSE back[j - (i - 1)]
  <2> DEFINE both == front \o back
  <2>1. /\ both \in Seq(S) /\ Len(both) = Len(front) + Len(back)
        /\ \A j \in 1 .. Len(front) + Len(back) :
              both[j] = IF j <= Len(front) THEN front[j] ELSE back[j - Len(front)]
    BY <1>1, <1>2, ConcatProperties
  <2> HIDE DEF both
  <2>2. Len(front) + Len(back) = Len(s) - 1
    BY <1>1, <1>2
  <2>3. ASSUME NEW j \in 1 .. Len(s) - 1
        PROVE  both[j] = IF j < i THEN front[j] ELSE back[j - (i - 1)]
    <3>1. both[j] = IF j <= Len(front) THEN front[j] ELSE back[j - Len(front)]
      BY <2>1, <2>2
    <3>2. Len(front) = i - 1 /\ i \in Int /\ j \in Int
      BY <1>1
    <3>3. j <= i - 1 <=> j < i
      BY <3>2
    <3> QED
      BY <3>1, <3>2, <3>3
  <2> QED
    BY <2>1, <2>2, <2>3 DEF both
<1>4. ASSUME NEW j \in 1 .. Len(s) - 1
      PROVE  (front \o back)[j] = s[IF j < i THEN j ELSE j + 1]
  <2>1. CASE j < i
    BY <2>1, <1>1, <1>3
  <2>2. CASE ~(j < i)
    <3>1. j - (i - 1) \in 1 .. Len(s) - i /\ i + (j - (i - 1)) = j + 1
      BY <2>2
    <3> QED
      BY <2>2, <3>1, <1>2, <1>3
  <2> QED
    BY <2>1, <2>2
<1> QED
  BY <1>3, <1>4 DEF RemoveAt, front, back

(* Aborting controllers ends the streams they control and no other run.    *)
LEMMA AbortedStreams ==
    ASSUME Served, NEW es, exchange' = Aborted(es)
    PROVE  /\ Served'
           /\ \A e \in Exchanges : Runs(e)' <=> Runs(e)
           /\ \A e \in Exchanges : Open(e)' => Open(e) /\ e \notin es
<1> DEFINE x(e) == [exchange[e] EXCEPT !.client = "stopped", !.signal = TRUE, !.wire = <<>>]
<1>1. DOMAIN exchange = Exchanges
  BY DEF Served
<1>2. \A e \in Exchanges : exchange[e] \in Exchange /\ KeyKept(exchange[e])
  BY DEF Served
<1>3. ASSUME NEW e \in Exchanges
      PROVE  /\ x(e) \in Exchange /\ x(e).client = "stopped"
             /\ x(e).key = exchange[e].key /\ x(e).route = exchange[e].route
             /\ x(e).fault = exchange[e].fault
  <2>1. PICK y \in Exchange : y = exchange[e]
    BY <1>2
  <2>2. PICK z : z = [y EXCEPT !.client = "stopped", !.signal = TRUE, !.wire = <<>>]
    OBVIOUS
  <2>3. z \in Exchange
    BY <2>2, EmptySeq DEF Exchange
  <2>4. z.client = "stopped" /\ z.key = y.key /\ z.route = y.route
    BY <2>2 DEF Exchange
  <2>5. z.fault = y.fault
    BY <2>2 DEF Exchange
  <2> QED
    BY <2>1, <2>2, <2>3, <2>4, <2>5
<1>4. \A e \in Exchanges :
         exchange'[e] = IF e \in es /\ exchange[e].client = "open" THEN x(e) ELSE exchange[e]
  BY <1>1 DEF Aborted
<1> HIDE DEF x
<1>5. ASSUME NEW e \in Exchanges
      PROVE  exchange'[e] \in Exchange /\ KeyKept(exchange'[e])
  BY <1>2, <1>3, <1>4 DEF KeyKept
<1>6. exchange' \in [Exchanges -> Exchange]
  <2>1. exchange' = [e \in Exchanges |-> exchange'[e]]
    BY <1>1 DEF Aborted
  <2> QED
    BY <2>1, <1>5
<1> QED
  BY <1>3, <1>4, <1>5, <1>6 DEF Served, Runs, Open

LEMMA ControlledStream ==
    ASSUME Streams, NEW slugs \in SUBSET Slugs, NEW e \in Exchanges, Open(e),
           e[2] \in slugs
    PROVE  e \in Controlled(slugs)
<1>1. e[1] # 0 /\ e = <<e[1], e[2]>>
  BY Bounds DEF Exchanges, Sends
<1>2. aborters[e[2]] = e[1]
  BY DEF Streams
<1> QED
  BY <1>1, <1>2 DEF Controlled

LEMMA AbortStep ==
    ASSUME Streams, Served, NEW es, exchange' = Aborted(es), mounted' \in BOOLEAN,
           UNCHANGED <<sends, streaming, aborters>>
    PROVE  Streams' /\ Served' /\ OpenStreams' \in SUBSET OpenStreams
<1>1. /\ Served'
      /\ \A e \in Exchanges : Runs(e)' <=> Runs(e)
      /\ \A e \in Exchanges : Open(e)' => Open(e)
  BY AbortedStreams
<1> QED
  BY <1>1 DEF Streams, OpenStreams

LEMMA SelectModelStep ==
    ASSUME PlaygroundInv, NEW slug \in Slugs, SelectModel(slug)
    PROVE  PlaygroundInv'
<1> DEFINE p == [rendered[1] EXCEPT !.slug = slug]
           next == <<p>>
<1>1. Streams' /\ Served' /\ OpenStreams' = OpenStreams /\ sends' = sends
  BY DEF PlaygroundInv, SelectModel, Streams, Served, OpenStreams, Open, Runs
<1>2. /\ Listed(rendered) /\ OwnTurns(rendered, sends)
      /\ Regime(rendered, OpenStreams)
      /\ Len(rendered) = 1 /\ DOMAIN rendered = {1} /\ rendered[1] \in Pane
  <2>1. Len(rendered) = 1 /\ Listed(rendered)
    BY DEF PlaygroundInv, Lists, SelectModel
  <2> QED
    BY <2>1, RenderedRegime, ListFacts DEF PlaygroundInv, Lists
<1>3. p \in Pane /\ p.turn = rendered[1].turn /\ p.slug = slug
  BY <1>2 DEF Pane
<1> HIDE DEF p
<1>4. /\ next \in Seq(Pane) /\ Len(next) = 1 /\ DOMAIN next = {1} /\ next[1] = p
  BY <1>3
<1> HIDE DEF next
<1>5. Listed(next)
  BY <1>2, <1>4 DEF Listed
<1>6. OwnTurns(next, sends)
  BY <1>2, <1>3, <1>4 DEF OwnTurns, HasTurn
<1>7. Regime(next, OpenStreams)
  <2>1. CASE Switched(rendered, OpenStreams)
    BY <2>1, <1>2, <1>3, <1>4 DEF Switched, Regime, HasTurn
  <2>2. CASE Unswitched(rendered, OpenStreams) /\ HasTurn(rendered[1])
    <3>1. rendered[1].slug \in Slugs /\ rendered[1].turn.slug = rendered[1].slug
      BY <2>2, <1>2, PaneFields DEF Unswitched
    <3>2. \A e \in OpenStreams : e[2] = rendered[1].slug
      BY <2>2, <1>2 DEF Unswitched
    <3>3. \A i \in DOMAIN next : next[i].turn.slug = rendered[1].slug
      BY <3>1, <1>3, <1>4
    <3> QED
      BY <3>1, <3>2, <3>3 DEF Switched, Regime
  <2>3. CASE Unswitched(rendered, OpenStreams) /\ ~HasTurn(rendered[1])
    <3>1. OpenStreams = {}
      BY <2>3, <1>2 DEF Unswitched
    <3>2. \A i \in DOMAIN next : ~HasTurn(next[i])
      BY <2>3, <1>3, <1>4 DEF HasTurn
    <3> QED
      BY <3>1, <3>2 DEF Unswitched, Regime
  <2> QED
    BY <1>2, <2>1, <2>2, <2>3 DEF Regime
<1>8. Lists'
  <2>1. ApplyPanes(next)
    BY DEF SelectModel, next, p
  <2> QED
    BY <2>1, <1>1, <1>5, <1>6, <1>7, Applied
<1> QED
  BY <1>1, <1>8 DEF PlaygroundInv

LEMMA AddPaneStep ==
    ASSUME PlaygroundInv, NEW slug \in Slugs, AddPane(slug)
    PROVE  PlaygroundInv'
<1> DEFINE p == [slug |-> slug, turn |-> NoTurn]
           next == Append(rendered, p)
           n == Len(rendered) + 1
<1>1. Streams' /\ Served' /\ OpenStreams' = OpenStreams /\ sends' = sends
  BY DEF PlaygroundInv, AddPane, Streams, Served, OpenStreams, Open, Runs
<1>2. /\ Listed(rendered) /\ OwnTurns(rendered, sends)
      /\ Regime(rendered, OpenStreams)
      /\ DOMAIN rendered = 1 .. Len(rendered) /\ Len(rendered) \in Nat
      /\ rendered \in Seq(Pane)
  BY RenderedRegime, ListFacts DEF PlaygroundInv, Lists, Listed
<1>3. /\ Len(rendered) < CompareLimit
      /\ \A i \in DOMAIN rendered : rendered[i].slug # slug
  BY DEF AddPane, Addable, SlugsOf
<1>4. p \in Pane /\ p.slug = slug /\ ~HasTurn(p)
  BY DEF Pane, HasTurn
<1> HIDE DEF p
<1>5. /\ next \in Seq(Pane) /\ Len(next) = n /\ DOMAIN next = 1 .. n
      /\ \A i \in DOMAIN rendered : i \in DOMAIN next /\ next[i] = rendered[i]
      /\ next[n] = p
  BY <1>2, <1>4, AppendProperties
<1>6. \A i \in DOMAIN next : i \in DOMAIN rendered \/ i = n
  BY <1>2, <1>5
<1> HIDE DEF next
<1>7. Listed(next)
  <2>1. Len(next) \in 1 .. CompareLimit
    BY <1>2, <1>3, <1>5, Bounds
  <2>2. ASSUME NEW i \in DOMAIN next, NEW j \in DOMAIN next, next[i].slug = next[j].slug
        PROVE  i = j
    BY <2>2, <1>2, <1>3, <1>4, <1>5, <1>6 DEF Listed
  <2> QED
    BY <1>5, <2>1, <2>2 DEF Listed
<1>8. OwnTurns(next, sends)
  BY <1>2, <1>4, <1>5, <1>6 DEF OwnTurns
<1>9. Regime(next, OpenStreams)
  <2>1. CASE Switched(rendered, OpenStreams)
    BY <2>1, <1>4, <1>5, <1>6 DEF Switched, Regime
  <2>2. CASE Unswitched(rendered, OpenStreams)
    BY <2>2, <1>4, <1>5, <1>6 DEF Unswitched, Regime
  <2> QED
    BY <1>2, <2>1, <2>2 DEF Regime
<1>10. Lists'
  <2>1. ApplyPanes(next)
    BY DEF AddPane, next, p
  <2> QED
    BY <2>1, <1>1, <1>7, <1>8, <1>9, Applied
<1> QED
  BY <1>1, <1>10 DEF PlaygroundInv

(* A removed pane takes its own stream with it, so the streams that are    *)
(* still read keep theirs.                                                 *)
LEMMA RemovePaneStep ==
    ASSUME PlaygroundInv, NEW slug \in Slugs, RemovePane(slug)
    PROVE  PlaygroundInv'
<1>1. PICK k \in DOMAIN rendered :
         rendered[k].slug = slug /\ ApplyPanes(RemoveAt(rendered, k))
  BY DEF RemovePane
<1> DEFINE next == RemoveAt(rendered, k)
           old(j) == IF j < k THEN j ELSE j + 1
<1>2. /\ Listed(rendered) /\ OwnTurns(rendered, sends)
      /\ Regime(rendered, OpenStreams)
      /\ DOMAIN rendered = 1 .. Len(rendered) /\ Len(rendered) \in Nat
      /\ rendered \in Seq(Pane)
  BY RenderedRegime, ListFacts DEF PlaygroundInv, Lists, Listed
<1>3. exchange' = Aborted(Controlled({slug})) /\ Len(rendered) > 1
      /\ UNCHANGED <<sends, streaming, aborters, mounted>>
  BY DEF RemovePane
<1>4. Streams' /\ Served' /\ OpenStreams' \in SUBSET OpenStreams
  <2>1. mounted' \in BOOLEAN
    BY <1>3 DEF PlaygroundInv, Streams
  <2> QED
    BY <2>1, <1>3, AbortStep DEF PlaygroundInv
<1>5. \A e \in OpenStreams' : e[2] # slug
  <2> SUFFICES ASSUME NEW e \in Exchanges, Open(e)', e[2] = slug
      PROVE  FALSE
    BY DEF OpenStreams
  <2>1. Open(e) /\ e \notin Controlled({slug})
    BY <1>3, AbortedStreams DEF PlaygroundInv
  <2> QED
    BY <2>1, ControlledStream DEF PlaygroundInv
<1>6. /\ next \in Seq(Pane) /\ Len(next) = Len(rendered) - 1
      /\ DOMAIN next = 1 .. Len(rendered) - 1
      /\ \A j \in DOMAIN next : next[j] = rendered[old(j)]
  <2>1. k \in 1 .. Len(rendered)
    BY <1>2
  <2>2. /\ next \in Seq(Pane) /\ Len(next) = Len(rendered) - 1
        /\ \A j \in 1 .. Len(next) : next[j] = rendered[old(j)]
    BY <2>1, <1>2, Removed
  <2> HIDE DEF next, old
  <2> QED
    BY <2>2
<1> HIDE DEF next
<1>7. /\ \A j \in DOMAIN next : old(j) \in DOMAIN rendered /\ old(j) # k
      /\ \A i, j \in DOMAIN next : old(i) = old(j) => i = j
  BY <1>2, <1>6
<1>8. \A i \in DOMAIN rendered : i # k => \E j \in DOMAIN next : old(j) = i
  <2> SUFFICES ASSUME NEW i \in DOMAIN rendered, i # k
      PROVE  \E j \in DOMAIN next : old(j) = i
    OBVIOUS
  <2>1. CASE i < k
    BY <2>1, <1>2, <1>6
  <2>2. CASE i > k
    <3>1. i - 1 \in DOMAIN next /\ old(i - 1) = i
      BY <2>2, <1>2, <1>6
    <3> QED
      BY <3>1
  <2> QED
    BY <2>1, <2>2, <1>2
<1> HIDE DEF old
<1>9. Listed(next)
  <2>1. Len(next) \in 1 .. CompareLimit
    BY <1>2, <1>3, <1>6, Bounds DEF Listed
  <2> QED
    BY <2>1, <1>2, <1>6, <1>7 DEF Listed
<1>10. OwnTurns(next, sends)
  BY <1>2, <1>6, <1>7 DEF OwnTurns
<1>11. Regime(next, OpenStreams')
  <2>1. CASE Switched(rendered, OpenStreams)
    BY <2>1, <1>4, <1>6, <1>7 DEF Switched, Regime
  <2>2. CASE Unswitched(rendered, OpenStreams)
    <3>1. \A j \in DOMAIN next : HasTurn(next[j]) => next[j].turn.slug = next[j].slug
      BY <2>2, <1>6, <1>7 DEF Unswitched
    <3>2. ASSUME NEW e \in OpenStreams'
          PROVE  \E j \in DOMAIN next : next[j].slug = e[2] /\ HasTurn(next[j])
      <4>1. PICK i \in DOMAIN rendered : rendered[i].slug = e[2] /\ HasTurn(rendered[i])
        BY <2>2, <1>4 DEF Unswitched
      <4>2. i # k
        BY <4>1, <1>1, <1>5
      <4> QED
        BY <4>1, <4>2, <1>6, <1>8
    <3> QED
      BY <3>1, <3>2 DEF Unswitched, Regime
  <2> QED
    BY <1>2, <2>1, <2>2 DEF Regime
<1>12. Lists'
  BY <1>1, <1>3, <1>9, <1>10, <1>11, Applied DEF next
<1> QED
  BY <1>4, <1>12 DEF PlaygroundInv

(* A prompt is sent when no stream runs: every pane gets a turn of its own *)
(* and every stream that opens has a pane.                                 *)
LEMMA SendStep ==
    ASSUME PlaygroundInv, NEW bad \in SUBSET Slugs, Send(bad)
    PROVE  PlaygroundInv'
<1> DEFINE send == sends + 1
           asked == SlugsOf(rendered) \ bad
           placeholder(slug) ==
              [send |-> send, slug |-> slug,
               got |-> Got(send, slug, IF slug \in bad THEN Error ELSE 0)]
           q(i) == [panes[i] EXCEPT !.turn = placeholder(panes[i].slug)]
           next == [i \in DOMAIN panes |-> q(i)]
<1>1. /\ send \in Sends /\ streaming = 0 /\ sends' = send /\ streaming' = send
      /\ ApplyPanes(next)
      /\ aborters' = [s \in Slugs |-> IF s \in asked THEN send ELSE aborters[s]]
      /\ exchange' = [e \in DOMAIN exchange |->
              IF e[1] = send /\ e[2] \in asked THEN Opened
              ELSE IF exchange[e].client = "closed" THEN NoExchange ELSE exchange[e]]
      /\ mounted' = mounted
  BY DEF Send, MaySend
<1>2. /\ Listed(panes) /\ panes \in Seq(Pane)
      /\ DOMAIN panes = 1 .. Len(panes) /\ Len(panes) \in Nat
      /\ \A i \in DOMAIN panes : panes[i] \in Pane
      /\ DOMAIN rendered = DOMAIN panes
      /\ \A i \in DOMAIN panes : rendered[i].slug = panes[i].slug
  BY ListFacts DEF PlaygroundInv, Lists, Listed, SamePanes, SamePane
<1>3. ASSUME NEW slug \in Slugs
      PROVE  /\ placeholder(slug) \in Turn /\ placeholder(slug).send = send
             /\ placeholder(slug).slug = slug
             /\ placeholder(slug).got.send = send /\ placeholder(slug).got.slug = slug
  <2>1. PICK event \in Event \cup {0} : event = IF slug \in bad THEN Error ELSE 0
    BY Bounds DEF Event, Error
  <2>2. PICK g \in Answer : g = Got(send, slug, event) /\ g.send = send /\ g.slug = slug
    <3>1. PICK n \in Sends : n = send
      BY <1>1
    <3>2. [send |-> n, slug |-> slug, event |-> event] \in Answer
      BY DEF Answer
    <3> QED
      BY <3>1, <3>2 DEF Got
  <2> QED
    BY <2>1, <2>2, <1>1 DEF Turn, Answer
<1>4. ASSUME NEW i \in DOMAIN panes
      PROVE  /\ q(i) \in Pane /\ q(i).slug = panes[i].slug
             /\ q(i).turn = placeholder(panes[i].slug)
  <2>1. PICK p \in Pane : p = panes[i]
    BY <1>2
  <2>2. p.slug \in Slugs
    BY PaneFields
  <2>3. PICK t \in Turn : t = placeholder(p.slug)
    BY <2>2, <1>3
  <2>4. [p EXCEPT !.turn = t] \in Pane /\ [p EXCEPT !.turn = t].slug = p.slug
        /\ [p EXCEPT !.turn = t].turn = t
    BY DEF Pane
  <2> QED
    BY <2>1, <2>3, <2>4
<1>5. /\ DOMAIN next = DOMAIN panes
      /\ \A i \in DOMAIN panes : next[i] = q(i)
      /\ next \in Seq(Pane) /\ Len(next) = Len(panes)
  <2>1. DOMAIN next = DOMAIN panes /\ \A i \in DOMAIN panes : next[i] = q(i)
    OBVIOUS
  <2>2. \A i \in 1 .. Len(panes) : q(i) \in Pane
    BY <1>2, <1>4
  <2> HIDE DEF q
  <2>3. next = [i \in 1 .. Len(panes) |-> q(i)]
    BY <1>2
  <2>4. next \in Seq(Pane) /\ Len(next) = Len(panes)
    BY <2>2, <2>3, <1>2
  <2> QED
    BY <2>1, <2>4
<1> HIDE DEF q, next
<1>6. ASSUME NEW i \in DOMAIN panes
      PROVE  /\ HasTurn(next[i]) /\ next[i].slug = panes[i].slug
             /\ next[i].turn.send = send /\ next[i].turn.slug = panes[i].slug
             /\ next[i].turn.got.send = send /\ next[i].turn.got.slug = panes[i].slug
  <2>1. panes[i].slug \in Slugs
    BY <1>2, PaneFields
  <2> HIDE DEF placeholder
  <2> QED
    BY <2>1, <1>3, <1>4, <1>5, TurnFields DEF HasTurn
<1>7. Listed(next)
  BY <1>2, <1>5, <1>6 DEF Listed
<1>8. OwnTurns(next, send)
  BY <1>5, <1>6 DEF OwnTurns
<1>9. asked \in SUBSET Slugs
      /\ \A s \in asked : \E i \in DOMAIN panes : panes[i].slug = s
  BY <1>2, PaneFields DEF SlugsOf
<1> HIDE DEF asked
<1>10. \A e \in Exchanges : ~Runs(e)
  BY <1>1, Bounds DEF PlaygroundInv, Streams, Exchanges, Sends
<1>11. /\ Opened \in Exchange /\ Opened.client = "open" /\ KeyKept(Opened)
       /\ NoExchange \in Exchange /\ NoExchange.client = "none" /\ KeyKept(NoExchange)
  <2>1. NoExchange \in Exchange /\ NoExchange.client = "none" /\ NoExchange.key = "none"
    BY EmptySeq, Bounds DEF NoExchange, Exchange
  <2>2. PICK x \in Exchange : x = NoExchange
    BY <2>1
  <2>3. Opened = [x EXCEPT !.client = "open", !.route = "asked"]
    BY <2>2 DEF Opened
  <2>4. Opened \in Exchange
    BY <2>3 DEF Exchange
  <2>5. Opened.client = "open" /\ Opened.key = x.key
    BY <2>3 DEF Exchange
  <2> QED
    BY <2>1, <2>2, <2>4, <2>5 DEF KeyKept
<1>12. /\ exchange \in [Exchanges -> Exchange] /\ DOMAIN exchange = Exchanges
       /\ \A e \in Exchanges : KeyKept(exchange[e])
  BY DEF PlaygroundInv, Served
<1>13. Served'
  BY <1>1, <1>11, <1>12 DEF Served
<1>14. \A e \in Exchanges : Runs(e)' => e[1] = send /\ e[2] \in asked
  BY <1>1, <1>10, <1>11, <1>12 DEF Runs
<1>15. Streams'
  <2>1. send \in 0 .. MaxSends /\ sends \in Nat
    BY <1>1 DEF PlaygroundInv, Streams, Sends
  <2>2. aborters' \in [Slugs -> 0 .. send]
    <3>1. \A s \in Slugs : aborters[s] \in 0 .. send /\ send \in 0 .. send
      BY <2>1 DEF PlaygroundInv, Streams
    <3> QED
      BY <3>1, <1>1
  <2>3. \A e \in Exchanges : Runs(e)' => aborters'[e[2]] = send
    BY <1>1, <1>9, <1>14
  <2>4. \A e \in Exchanges : Open(e)' => Runs(e)'
    BY DEF Open, Runs
  <2>5. mounted' \in BOOLEAN
    BY <1>1 DEF PlaygroundInv, Streams
  <2> QED
    BY <1>1, <1>14, <2>1, <2>2, <2>3, <2>4, <2>5 DEF Streams
<1>16. Regime(next, OpenStreams')
  <2>1. \A i \in DOMAIN next : next[i].turn.slug = next[i].slug
    BY <1>5, <1>6
  <2>2. ASSUME NEW e \in OpenStreams'
        PROVE  \E i \in DOMAIN next : next[i].slug = e[2] /\ HasTurn(next[i])
    <3>1. e[2] \in asked
      BY <1>14 DEF OpenStreams, Open, Runs
    <3> QED
      BY <3>1, <1>5, <1>6, <1>9
  <2> QED
    BY <2>1, <2>2 DEF Unswitched, Regime
<1>17. Lists'
  BY <1>1, <1>7, <1>8, <1>16, Applied
<1> QED
  BY <1>13, <1>15, <1>17 DEF PlaygroundInv
-----------------------------------------------------------------------------
(* One exchange at a time.                                                 *)

LEMMA ExchangeStep ==
    ASSUME Served, NEW e \in Exchanges, NEW x \in Exchange, KeyKept(x),
           exchange' = [exchange EXCEPT ![e] = x]
    PROVE  /\ Served' /\ exchange'[e] = x
           /\ \A f \in Exchanges : f # e => exchange'[f] = exchange[f]
<1>1. /\ exchange' \in [Exchanges -> Exchange] /\ exchange'[e] = x
      /\ \A f \in Exchanges : f # e => exchange'[f] = exchange[f]
  BY DEF Served
<1> QED
  BY <1>1 DEF Served

(* Whatever the route does leaves the browser's side alone.                *)
LEMMA RouteStep ==
    ASSUME PlaygroundInv, NEW e \in Exchanges, NEW from, NEW x \in Exchange,
           Route(e, from, x), KeyKept(x), x.client = exchange[e].client
    PROVE  PlaygroundInv'
<1>1. /\ exchange' = [exchange EXCEPT ![e] = x]
      /\ UNCHANGED <<panes, rendered, sends, streaming, aborters, mounted>>
  BY DEF Route
<1>2. /\ Served' /\ exchange'[e] = x
      /\ \A f \in Exchanges : f # e => exchange'[f] = exchange[f]
  BY <1>1, ExchangeStep DEF PlaygroundInv
<1>3. \A f \in Exchanges : (Runs(f)' <=> Runs(f)) /\ (Open(f)' <=> Open(f))
  BY <1>2 DEF Runs, Open
<1>4. Streams' /\ OpenStreams' = OpenStreams
  BY <1>1, <1>3 DEF PlaygroundInv, Streams, OpenStreams
<1>5. Lists'
  BY <1>1, <1>4 DEF PlaygroundInv, Lists
<1> QED
  BY <1>2, <1>4, <1>5 DEF PlaygroundInv

(* A stream that ends gives up the controller of its slug, which is its    *)
(* own: only streams of one send run at a time.                            *)
LEMMA StreamEnds ==
    ASSUME PlaygroundInv, NEW e \in Exchanges, Runs(e), NEW x \in Exchange, KeyKept(x),
           x.client = "closed", exchange' = [exchange EXCEPT ![e] = x],
           aborters' = [aborters EXCEPT ![e[2]] = 0],
           UNCHANGED <<sends, streaming, mounted>>
    PROVE  Streams' /\ Served' /\ OpenStreams' \in SUBSET OpenStreams
<1>1. /\ Served' /\ exchange'[e] = x
      /\ \A f \in Exchanges : f # e => exchange'[f] = exchange[f]
  BY ExchangeStep DEF PlaygroundInv
<1>2. \A f \in Exchanges : /\ Runs(f)' => Runs(f) /\ f # e
                           /\ Open(f)' => Open(f) /\ f # e
  BY <1>1 DEF Runs, Open
<1>3. e[1] = streaming /\ e[2] \in Slugs /\ e = <<e[1], e[2]>>
  BY DEF PlaygroundInv, Streams, Exchanges
<1>4. ASSUME NEW f \in Exchanges, Open(f)'
      PROVE  aborters'[f[2]] = f[1]
  <2>1. f = <<f[1], f[2]>> /\ f[2] \in Slugs
    BY DEF Exchanges
  <2>2. f[1] = streaming /\ aborters[f[2]] = f[1]
    BY <1>2, <1>4 DEF PlaygroundInv, Streams, Runs, Open
  <2>3. f[2] # e[2]
    BY <1>2, <1>3, <1>4, <2>1, <2>2
  <2> QED
    BY <2>1, <2>2, <2>3 DEF PlaygroundInv, Streams
<1>5. aborters' \in [Slugs -> 0 .. sends]
  <2>1. 0 \in 0 .. sends
    BY DEF PlaygroundInv, Streams
  <2> QED
    BY <2>1 DEF PlaygroundInv, Streams
<1>6. Streams'
  BY <1>2, <1>4, <1>5 DEF PlaygroundInv, Streams
<1>7. OpenStreams' \in SUBSET OpenStreams
  BY <1>2 DEF OpenStreams
<1> QED
  BY <1>1, <1>6, <1>7

(* An event read by an open stream, with the rendered panes left behind.   *)
LEMMA EventStep ==
    ASSUME PlaygroundInv, NEW e \in Exchanges, NEW event \in Event, Open(e),
           UpdateLastAssistant(e, event), UNCHANGED <<rendered, sends>>,
           OpenStreams' \in SUBSET OpenStreams
    PROVE  Lists'
<1>1. e[1] = sends
  <2>1. e[1] = streaming /\ e[1] # 0
    BY Bounds DEF PlaygroundInv, Streams, Runs, Open, Exchanges, Sends
  <2> QED
    BY <2>1 DEF PlaygroundInv, Streams
<1>2. Listed(panes') /\ OwnTurns(panes', sends) /\ SamePanes(panes, panes')
  BY <1>1, EventLands DEF PlaygroundInv, UpdateLastAssistant
<1>3. /\ Listed(panes) /\ Listed(rendered) /\ SamePanes(panes, rendered)
      /\ OwnTurns(rendered, sends) /\ Regime(panes, OpenStreams)
  BY DEF PlaygroundInv, Lists
<1>4. SamePanes(panes', rendered)
  BY <1>2, <1>3, SameSymmetric, SameTransitive
<1>5. Regime(panes', OpenStreams')
  BY <1>2, <1>3, RegimeKept
<1> QED
  BY <1>2, <1>3, <1>4, <1>5 DEF Lists

LEMMA ExchangeFields ==
    ASSUME PlaygroundInv, NEW e \in Exchanges
    PROVE  /\ exchange[e] \in Exchange /\ KeyKept(exchange[e])
           /\ exchange[e].wire \in Seq(Event)
BY DEF PlaygroundInv, Served, Exchange

LEMMA RunPaneStep ==
    ASSUME PlaygroundInv, NEW e \in Exchanges, RunPane(e)
    PROVE  PlaygroundInv'
<1>1. PICK y \in Exchange : y = exchange[e] /\ KeyKept(y) /\ y.wire \in Seq(Event)
  BY ExchangeFields
<1>2. /\ y.client = "open" /\ y.wire # <<>>
      /\ UpdateLastAssistant(e, Head(y.wire))
      /\ UNCHANGED <<rendered, sends, streaming, aborters, mounted>>
  BY <1>1 DEF RunPane
<1>3. PICK x : x = [y EXCEPT !.wire = Tail(y.wire)]
  OBVIOUS
<1>4. Head(y.wire) \in Event /\ Tail(y.wire) \in Seq(Event)
  BY <1>1, <1>2
<1>5. x \in Exchange
  BY <1>3, <1>4 DEF Exchange
<1>6. x.client = y.client /\ x.key = y.key /\ x.route = y.route
  BY <1>3 DEF Exchange
<1>7. x.fault = y.fault
  BY <1>3 DEF Exchange
<1>8. KeyKept(x)
  BY <1>1, <1>6, <1>7 DEF KeyKept
<1>9. exchange' = [exchange EXCEPT ![e] = x]
  BY <1>1, <1>3 DEF RunPane
<1>10. /\ Served' /\ exchange'[e] = x
       /\ \A f \in Exchanges : f # e => exchange'[f] = exchange[f]
  BY <1>5, <1>8, <1>9, ExchangeStep DEF PlaygroundInv
<1>11. \A f \in Exchanges : (Runs(f)' <=> Runs(f)) /\ (Open(f)' <=> Open(f))
  BY <1>1, <1>6, <1>10 DEF Runs, Open
<1>12. Streams' /\ OpenStreams' = OpenStreams
  BY <1>2, <1>11 DEF PlaygroundInv, Streams, OpenStreams
<1>13. Lists'
  BY <1>1, <1>2, <1>4, <1>12, EventStep DEF Open
<1> QED
  BY <1>10, <1>12, <1>13 DEF PlaygroundInv

LEMMA DisconnectStep ==
    ASSUME PlaygroundInv, NEW e \in Exchanges, Disconnect(e)
    PROVE  PlaygroundInv'
<1>1. PICK y \in Exchange : y = exchange[e] /\ KeyKept(y)
  BY ExchangeFields
<1>2. /\ y.client = "open" /\ UpdateLastAssistant(e, Error)
      /\ aborters' = [aborters EXCEPT ![e[2]] = 0]
      /\ UNCHANGED <<rendered, sends, streaming, mounted>>
  BY <1>1 DEF Disconnect
<1>3. PICK x : x = [y EXCEPT !.client = "closed", !.signal = TRUE, !.wire = <<>>]
  OBVIOUS
<1>4. x \in Exchange
  BY <1>3, EmptySeq DEF Exchange
<1>5. x.client = "closed" /\ x.key = y.key /\ x.route = y.route
  BY <1>3 DEF Exchange
<1>6. x.fault = y.fault
  BY <1>3 DEF Exchange
<1>7. KeyKept(x)
  BY <1>1, <1>5, <1>6 DEF KeyKept
<1>8. exchange' = [exchange EXCEPT ![e] = x]
  BY <1>1, <1>3 DEF Disconnect
<1>9. Open(e) /\ Runs(e) /\ Error \in Event
  BY <1>1, <1>2, Bounds DEF Open, Runs, Error, Event
<1>10. Streams' /\ Served' /\ OpenStreams' \in SUBSET OpenStreams
  BY <1>2, <1>4, <1>5, <1>7, <1>8, <1>9, StreamEnds
<1>11. Lists'
  BY <1>2, <1>9, <1>10, EventStep
<1> QED
  BY <1>10, <1>11 DEF PlaygroundInv

LEMMA PaneSettlesStep ==
    ASSUME PlaygroundInv, NEW e \in Exchanges, PaneSettles(e)
    PROVE  PlaygroundInv'
<1>1. PICK y \in Exchange : y = exchange[e] /\ KeyKept(y)
  BY ExchangeFields
<1>2. PICK x : x = [y EXCEPT !.client = "closed"]
  OBVIOUS
<1>3. x \in Exchange
  BY <1>2 DEF Exchange
<1>4. x.client = "closed" /\ x.key = y.key /\ x.route = y.route
  BY <1>2 DEF Exchange
<1>5. x.fault = y.fault
  BY <1>2 DEF Exchange
<1>6. KeyKept(x)
  BY <1>1, <1>4, <1>5 DEF KeyKept
<1>7. exchange' = [exchange EXCEPT ![e] = x]
  BY <1>1, <1>2 DEF PaneSettles
<1>8. Runs(e)
  BY DEF PaneSettles, Ends, Runs
<1>9. /\ aborters' = [aborters EXCEPT ![e[2]] = 0]
      /\ UNCHANGED <<panes, rendered, sends, streaming, mounted>>
  BY DEF PaneSettles
<1>10. Streams' /\ Served' /\ OpenStreams' \in SUBSET OpenStreams
  BY <1>3, <1>4, <1>6, <1>7, <1>8, <1>9, StreamEnds
<1>11. Regime(panes, OpenStreams')
  BY <1>10, SameReflexive, RegimeKept DEF PlaygroundInv, Lists
<1>12. Lists'
  BY <1>9, <1>11 DEF PlaygroundInv, Lists
<1> QED
  BY <1>10, <1>12 DEF PlaygroundInv

(* The page's other steps: a render, Stop, leaving the page, and the end   *)
(* of a send.                                                              *)
LEMMA PageStep ==
    ASSUME PlaygroundInv, Render \/ AbortAll \/ Unmount \/ SendSettles
    PROVE  PlaygroundInv'
<1>1. CASE Render
  <2>1. Streams' /\ Served' /\ OpenStreams' = OpenStreams /\ sends' = sends
    BY <1>1 DEF Render, PlaygroundInv, Streams, Served, OpenStreams, Open, Runs
  <2>2. Lists'
    BY <1>1, <2>1, SameReflexive DEF Render, PlaygroundInv, Lists
  <2> QED
    BY <2>1, <2>2 DEF PlaygroundInv
<1>2. ASSUME AbortAll \/ Unmount PROVE PlaygroundInv'
  <2>1. /\ exchange' = Aborted(Controlled(Slugs)) /\ mounted' \in BOOLEAN
        /\ UNCHANGED <<panes, rendered, sends, streaming, aborters>>
    BY <1>2 DEF AbortAll, Unmount, PlaygroundInv, Streams
  <2>2. Streams' /\ Served' /\ OpenStreams' \in SUBSET OpenStreams
    BY <2>1, AbortStep DEF PlaygroundInv
  <2>3. Regime(panes, OpenStreams')
    BY <2>2, SameReflexive, RegimeKept DEF PlaygroundInv, Lists
  <2>4. Lists'
    BY <2>1, <2>3 DEF PlaygroundInv, Lists
  <2> QED
    BY <2>2, <2>4 DEF PlaygroundInv
<1>3. CASE SendSettles
  <2>1. \A e \in Exchanges : ~Runs(e)
    <3> SUFFICES ASSUME NEW e \in Exchanges, Runs(e)
        PROVE  FALSE
      OBVIOUS
    <3>1. e = <<streaming, e[2]>> /\ e[2] \in Slugs
      BY DEF PlaygroundInv, Streams, Exchanges
    <3> QED
      BY <1>3, <3>1 DEF SendSettles, Runs
  <2>2. Streams' /\ Served' /\ OpenStreams' = OpenStreams
    BY <1>3, <2>1 DEF SendSettles, PlaygroundInv, Streams, Served, OpenStreams, Open, Runs
  <2>3. Lists'
    BY <1>3, <2>2 DEF SendSettles, PlaygroundInv, Lists
  <2> QED
    BY <2>2, <2>3 DEF PlaygroundInv
<1> QED
  BY <1>1, <1>2, <1>3
-----------------------------------------------------------------------------
(* The route.                                                              *)

(* An event the route emits changes at most the wire.                      *)
LEMMA UnreadKeeps ==
    ASSUME NEW y \in Exchange, NEW event \in Event
    PROVE  /\ Unread(y, event) \in Exchange
           /\ Unread(y, event).client = y.client
           /\ Unread(y, event).key = y.key
           /\ Unread(y, event).fault = y.fault
           /\ Unread(y, event).route = y.route
<1>1. CASE y.signal
  BY <1>1 DEF Unread
<1>2. CASE ~y.signal
  <2>1. PICK z : z = [y EXCEPT !.wire = Append(y.wire, event)]
    OBVIOUS
  <2>2. y.wire \in Seq(Event)
    BY DEF Exchange
  <2>3. Append(y.wire, event) \in Seq(Event)
    BY <2>2, AppendProperties
  <2>4. z \in Exchange
    BY <2>1, <2>3 DEF Exchange
  <2>5. z.client = y.client /\ z.key = y.key /\ z.route = y.route
    BY <2>1 DEF Exchange
  <2>6. z.fault = y.fault
    BY <2>1 DEF Exchange
  <2> QED
    BY <1>2, <2>1, <2>4, <2>5, <2>6 DEF Unread
<1> QED
  BY <1>1, <1>2
(* A step of the route that leaves the key alone: it goes on working, or   *)
(* it closes without having minted one.                                    *)
Working == {"calling", "streaming", "failing", "closing", "dead"}

LEMMA RouteMoves ==
    ASSUME NEW y \in Exchange, KeyKept(y), NEW place \in {"closed"} \cup Working,
           place = "closed" => y.route \notin Working
    PROVE  LET x == [y EXCEPT !.route = place]
           IN  x \in Exchange /\ x.client = y.client /\ KeyKept(x)
<1>1. PICK x : x = [y EXCEPT !.route = place]
  OBVIOUS
<1>2. x \in Exchange
  BY <1>1 DEF Exchange, Working
<1>3. x.client = y.client /\ x.key = y.key /\ x.route = place
  BY <1>1 DEF Exchange
<1>4. x.fault = y.fault
  BY <1>1 DEF Exchange
<1>5. KeyKept(x)
  BY <1>3, <1>4 DEF KeyKept, Working
<1> QED
  BY <1>1, <1>2, <1>3, <1>5

LEMMA StreamOver ==
    ASSUME NEW y \in Exchange
    PROVE  LET x == [y EXCEPT !.route = "closing", !.sent = 0]
           IN  x \in Exchange /\ x.client = y.client /\ KeyKept(x)
<1>1. PICK x : x = [y EXCEPT !.route = "closing", !.sent = 0]
  OBVIOUS
<1>2. x \in Exchange
  <2>1. 0 \in 0 .. Deltas
    BY Bounds
  <2> QED
    BY <1>1, <2>1 DEF Exchange
<1>3. x.client = y.client /\ x.route = "closing"
  BY <1>1 DEF Exchange
<1> QED
  BY <1>1, <1>2, <1>3 DEF KeyKept

(* Both revocations: the key is dead or the failed update is on record.    *)
LEMMA KeyRevoked ==
    ASSUME NEW y \in Exchange, NEW w \in Exchange, NEW ok \in BOOLEAN
    PROVE  LET x == [y EXCEPT !.route = "closed", !.fault = ~ok, !.key = KeyAfter(w, ok)]
           IN  x \in Exchange /\ x.client = y.client /\ KeyKept(x)
<1>1. CASE ok = TRUE
  <2>1. PICK x : x = [y EXCEPT !.route = "closed", !.fault = FALSE, !.key = "revoked"]
    OBVIOUS
  <2>2. x \in Exchange
    BY <2>1 DEF Exchange
  <2>3. x.client = y.client /\ x.key = "revoked"
    BY <2>1 DEF Exchange
  <2>4. (~ok) = FALSE /\ KeyAfter(w, ok) = "revoked"
    BY <1>1 DEF KeyAfter
  <2> QED
    BY <2>1, <2>2, <2>3, <2>4 DEF KeyKept
<1>2. CASE ok = FALSE
  <2>1. PICK k \in {"none", "live", "revoked"} : k = w.key
    BY DEF Exchange
  <2>2. PICK x : x = [y EXCEPT !.route = "closed", !.fault = TRUE, !.key = k]
    OBVIOUS
  <2>3. x \in Exchange
    BY <2>2 DEF Exchange
  <2>4. x.client = y.client /\ x.fault = TRUE
    BY <2>2 DEF Exchange
  <2>5. (~ok) = TRUE /\ KeyAfter(w, ok) = k
    BY <1>2, <2>1 DEF KeyAfter
  <2> QED
    BY <2>2, <2>3, <2>4, <2>5 DEF KeyKept
<1> QED
  BY <1>1, <1>2

LEMMA RouteSteps ==
    ASSUME PlaygroundInv, NEW e \in Exchanges,
           \/ RefuseExchange(e) \/ MintPlaygroundServingKey(e)
           \/ StreamChatCompletion(e) \/ CallThrows(e) \/ EmitDelta(e)
           \/ UpstreamEnds(e) \/ UpstreamFails(e) \/ RouteDies(e)
           \/ \E ok \in BOOLEAN : Revoke(e, ok) \/ RevokeAndThrow(e, ok)
    PROVE  PlaygroundInv'
<1>1. PICK y \in Exchange : y = exchange[e] /\ KeyKept(y)
  BY ExchangeFields
<1>2. PICK z \in Exchange :
         /\ z = Unread(y, Error) /\ z.client = y.client /\ z.key = y.key
         /\ z.fault = y.fault /\ z.route = y.route
  BY UnreadKeeps, Bounds DEF Error, Event
<1>3. KeyKept(z)
  BY <1>1, <1>2 DEF KeyKept
<1>4. ASSUME RefuseExchange(e) PROVE PlaygroundInv'
  <2>1. Route(e, "asked", [z EXCEPT !.route = "closed"])
    BY <1>1, <1>2, <1>4 DEF RefuseExchange
  <2>2. z.route \notin Working
    BY <2>1, <1>1, <1>2 DEF Route, Working
  <2> QED
    BY <2>1, <2>2, <1>1, <1>2, <1>3, RouteMoves, RouteStep
<1>5. ASSUME MintPlaygroundServingKey(e) PROVE PlaygroundInv'
  <2>1. PICK x : x = [y EXCEPT !.route = "calling", !.key = "live"]
    OBVIOUS
  <2>2. x \in Exchange
    BY <2>1 DEF Exchange
  <2>3. x.client = y.client /\ x.route = "calling"
    BY <2>1 DEF Exchange
  <2>4. KeyKept(x)
    BY <2>3 DEF KeyKept
  <2>5. Route(e, "asked", x)
    BY <1>1, <1>5, <2>1 DEF MintPlaygroundServingKey
  <2> QED
    BY <2>2, <2>3, <2>4, <2>5, <1>1, RouteStep
<1>6. ASSUME NEW place \in Working, NEW from,
             Route(e, from, [y EXCEPT !.route = place])
      PROVE  PlaygroundInv'
  <2>1. place # "closed"
    BY DEF Working
  <2> QED
    BY <1>1, <1>6, <2>1, RouteMoves, RouteStep
<1>7. ASSUME StreamChatCompletion(e) \/ CallThrows(e) \/ RouteDies(e)
      PROVE  PlaygroundInv'
  BY <1>1, <1>6, <1>7 DEF StreamChatCompletion, CallThrows, RouteDies, Working
<1>8. ASSUME EmitDelta(e) PROVE PlaygroundInv'
  <2>1. y.sent < Deltas /\ y.sent \in 0 .. Deltas /\ y.wire \in Seq(Event)
        /\ y.route = "streaming"
    BY <1>1, <1>8 DEF EmitDelta, Exchange, Route
  <2>2. y.sent + 1 \in 0 .. Deltas /\ y.sent + 1 \in Event
    BY <2>1, Bounds DEF Event, Error
  <2>3. Append(y.wire, y.sent + 1) \in Seq(Event)
    BY <2>1, <2>2, AppendProperties
  <2>4. PICK x : x = [y EXCEPT !.sent = y.sent + 1, !.wire = Append(y.wire, y.sent + 1)]
    OBVIOUS
  <2>5. x \in Exchange
    BY <2>2, <2>3, <2>4 DEF Exchange
  <2>6. x.client = y.client /\ x.route = y.route
    BY <2>4 DEF Exchange
  <2>7. KeyKept(x)
    BY <2>1, <2>6 DEF KeyKept
  <2>8. Route(e, "streaming", x)
    BY <1>1, <1>8, <2>4 DEF EmitDelta
  <2> QED
    BY <2>5, <2>6, <2>7, <2>8, <1>1, RouteStep
<1>9. ASSUME UpstreamEnds(e) \/ UpstreamFails(e) PROVE PlaygroundInv'
  <2>1. PICK w \in {y, z} : Route(e, "streaming", [w EXCEPT !.route = "closing", !.sent = 0])
    BY <1>1, <1>2, <1>9 DEF UpstreamEnds, UpstreamFails
  <2>2. w \in Exchange /\ w.client = y.client
    BY <1>2
  <2> QED
    BY <2>1, <2>2, <1>1, StreamOver, RouteStep
<1>10. ASSUME NEW ok \in BOOLEAN, Revoke(e, ok) \/ RevokeAndThrow(e, ok)
       PROVE  PlaygroundInv'
  <2>1. PICK w \in {y, z}, from \in {"closing", "failing"} :
           Route(e, from, [w EXCEPT !.route = "closed", !.fault = ~ok,
                                    !.key = KeyAfter(y, ok)])
    BY <1>1, <1>2, <1>10 DEF Revoke, RevokeAndThrow
  <2>2. w \in Exchange /\ w.client = y.client
    BY <1>2
  <2> QED
    BY <2>1, <2>2, <1>1, KeyRevoked, RouteStep
<1> QED
  BY <1>4, <1>5, <1>7, <1>8, <1>9, <1>10
-----------------------------------------------------------------------------
(* The invariant and what follows from it.                                 *)

LEMMA PlaygroundInit == Init => PlaygroundInv
<1> SUFFICES ASSUME Init PROVE PlaygroundInv
  OBVIOUS
<1> DEFINE first(i) == [slug |-> InitialSlugs[i], turn |-> NoTurn]
<1>1. /\ InitialSlugs \in Seq(Slugs) /\ InitialSlugs # <<>>
      /\ \A i, j \in DOMAIN InitialSlugs : InitialSlugs[i] = InitialSlugs[j] => i = j
      /\ Len(InitialSlugs) <= CompareLimit
  BY PlaygroundConstants DEF IsInjective
<1>2. /\ panes = [i \in DOMAIN InitialSlugs |-> first(i)] /\ rendered = panes
      /\ sends = 0 /\ streaming = 0 /\ aborters = [s \in Slugs |-> 0]
      /\ exchange = [e \in Exchanges |-> NoExchange] /\ mounted = TRUE
  BY DEF Init, Exchanges
<1>3. /\ DOMAIN InitialSlugs = 1 .. Len(InitialSlugs) /\ Len(InitialSlugs) \in Nat
      /\ Len(InitialSlugs) # 0
      /\ \A i \in DOMAIN InitialSlugs : InitialSlugs[i] \in Slugs
  BY <1>1, EmptySeq
<1>4. \A i \in DOMAIN InitialSlugs :
         first(i) \in Pane /\ first(i).slug = InitialSlugs[i] /\ ~HasTurn(first(i))
  BY <1>3 DEF Pane, HasTurn
<1> HIDE DEF first
<1>5. /\ panes \in Seq(Pane) /\ Len(panes) = Len(InitialSlugs)
      /\ DOMAIN panes = DOMAIN InitialSlugs
      /\ \A i \in DOMAIN panes : panes[i] = first(i)
  BY <1>2, <1>3, <1>4
<1>6. Listed(panes)
  <2>1. Len(panes) \in 1 .. CompareLimit
    BY <1>1, <1>3, <1>5, Bounds
  <2> QED
    BY <1>1, <1>4, <1>5, <2>1 DEF Listed
<1>7. \A i \in DOMAIN panes : ~HasTurn(panes[i])
  BY <1>4, <1>5
<1>8. /\ NoExchange \in Exchange /\ NoExchange.client = "none" /\ KeyKept(NoExchange)
  <2>1. NoExchange \in Exchange /\ NoExchange.client = "none" /\ NoExchange.key = "none"
    BY EmptySeq, Bounds DEF NoExchange, Exchange
  <2> QED
    BY <2>1 DEF KeyKept
<1>9. \A e \in Exchanges : exchange[e] = NoExchange
  BY <1>2
<1>10. Served
  BY <1>2, <1>8, <1>9 DEF Served
<1>11. Streams
  <2>1. 0 \in 0 .. MaxSends /\ 0 \in 0 .. 0
    BY Bounds
  <2> QED
    BY <2>1, <1>2, <1>8, <1>9 DEF Streams, Runs, Open
<1>12. Lists
  <2>1. OpenStreams = {}
    BY <1>8, <1>9 DEF OpenStreams, Open
  <2>2. OwnTurns(panes, sends) /\ Regime(panes, OpenStreams)
    BY <1>7, <2>1 DEF OwnTurns, Regime, Unswitched
  <2> QED
    BY <1>2, <1>6, <2>2, SameReflexive DEF Lists
<1> QED
  BY <1>10, <1>11, <1>12 DEF PlaygroundInv

LEMMA PlaygroundStep == PlaygroundInv /\ [Next]_vars => PlaygroundInv'
<1> SUFFICES ASSUME PlaygroundInv, [Next]_vars PROVE PlaygroundInv'
  OBVIOUS
<1>1. CASE Render \/ AbortAll \/ Unmount \/ SendSettles
  BY <1>1, PageStep
<1>2. ASSUME NEW s \in Slugs, SelectModel(s) \/ AddPane(s) \/ RemovePane(s)
      PROVE  PlaygroundInv'
  BY <1>2, SelectModelStep, AddPaneStep, RemovePaneStep
<1>3. ASSUME NEW bad \in SUBSET Slugs, Send(bad) PROVE PlaygroundInv'
  BY <1>3, SendStep
<1>4. ASSUME NEW e \in Exchanges, RunPane(e) \/ Disconnect(e) \/ PaneSettles(e)
      PROVE  PlaygroundInv'
  BY <1>4, RunPaneStep, DisconnectStep, PaneSettlesStep
<1>5. ASSUME NEW e \in Exchanges,
             \/ RefuseExchange(e) \/ MintPlaygroundServingKey(e)
             \/ StreamChatCompletion(e) \/ CallThrows(e) \/ EmitDelta(e)
             \/ UpstreamEnds(e) \/ UpstreamFails(e) \/ RouteDies(e)
             \/ \E ok \in BOOLEAN : Revoke(e, ok) \/ RevokeAndThrow(e, ok)
      PROVE  PlaygroundInv'
  BY <1>5, RouteSteps
<1>6. CASE UNCHANGED vars
  <2>1. Streams' /\ Served' /\ OpenStreams' = OpenStreams
    BY <1>6 DEF vars, PlaygroundInv, Streams, Served, OpenStreams, Open, Runs
  <2>2. Lists'
    BY <1>6, <2>1 DEF vars, PlaygroundInv, Lists
  <2> QED
    BY <2>1, <2>2 DEF PlaygroundInv
<1> QED
  BY <1>1, <1>2, <1>3, <1>4, <1>5, <1>6 DEF Next, Exchanges

LEMMA PlaygroundInvariant == Spec => []PlaygroundInv
BY PlaygroundInit, PlaygroundStep, PTL DEF Spec

(* The page shows at least one and at most COMPARE_LIMIT panes, never two  *)
(* for one model, and every part of the state keeps its type, whatever the *)
(* user, the route and the upstream do.                                    *)
THEOREM PlaygroundTypeCorrect == Spec => []TypeOK
<1>1. PlaygroundInv => TypeOK
  <2> SUFFICES ASSUME PlaygroundInv PROVE TypeOK
    OBVIOUS
  <2>1. sends \in Nat /\ sends \in 0 .. MaxSends /\ streaming \in 0 .. sends
        /\ aborters \in [Slugs -> 0 .. sends] /\ mounted \in BOOLEAN
    BY DEF PlaygroundInv, Streams
  <2>2. exchange \in [Sends \X Slugs -> Exchange]
    BY DEF PlaygroundInv, Served, Exchanges
  <2>3. ASSUME NEW list \in {panes, rendered}, NEW i \in DOMAIN list
        PROVE  list[i].turn.send <= sends
    <3>1. list[i] \in Pane /\ OwnTurns(list, sends)
      BY ListFacts DEF PlaygroundInv, Lists
    <3>2. CASE HasTurn(list[i])
      BY <2>1, <3>1, <3>2 DEF OwnTurns
    <3>3. CASE ~HasTurn(list[i])
      <4>1. list[i].turn.send = 0
        BY <3>3 DEF HasTurn, NoTurn
      <4> QED
        BY <2>1, <4>1
    <3> QED
      BY <3>2, <3>3
  <2>4. \A list \in {panes, rendered} : Listed(list)
    BY DEF PlaygroundInv, Lists
  <2> QED
    BY <2>1, <2>2, <2>3, <2>4 DEF TypeOK, Listed
<1> QED
  BY <1>1, PlaygroundInvariant, PTL

(* What streams into a turn answers the prompt above it, by the model the  *)
(* placeholder was made for, however panes were relabelled, added or       *)
(* removed meanwhile (updateLastAssistant looks its pane up by slug).      *)
THEOREM RepliesLandInTheirTurn == Spec => []RepliesInOwnTurn
<1>1. PlaygroundInv => RepliesInOwnTurn
  BY DEF PlaygroundInv, Lists, OwnTurns, HasTurn, RepliesInOwnTurn
<1> QED
  BY <1>1, PlaygroundInvariant, PTL

(* Stop, leaving the page and the guard of the next send reach every       *)
(* stream that is still read (abortersRef and streamingRef).               *)
THEOREM StopReachesStreams == Spec => []StopReachesEveryStream
<1>1. PlaygroundInv => StopReachesEveryStream
  BY DEF PlaygroundInv, Streams, Exchanges, Runs, Open, StopReachesEveryStream
<1> QED
  BY <1>1, PlaygroundInvariant, PTL

(* No serving key stays live behind a route that returned, on any path     *)
(* through the chat route, unless the update that revokes it failed.       *)
THEOREM KeysDieWithRoutes == Spec => []KeyDiesWithItsRoute
<1>1. PlaygroundInv => KeyDiesWithItsRoute
  BY DEF PlaygroundInv, Served, Exchanges, KeyKept, KeyDiesWithItsRoute
<1> QED
  BY <1>1, PlaygroundInvariant, PTL
=============================================================================
