-------------------------------- MODULE Desk --------------------------------
(***************************************************************************)
(* Where a person decides outside the terminal: each run serves its        *)
(* proposals over HTTP on its own port (internal/approvalhttp/server.go,   *)
(* orchestrator/person.go), registers itself in the workspace's sessions   *)
(* directory, and `staircase serve` (hub.go) shows every registered        *)
(* session on one page and forwards its decisions.                         *)
(*                                                                         *)
(* Sessions share one port and one key (--approval-port, --approval-token),*)
(* one after another: what is sent to a session that is gone reaches the   *)
(* one that replaced it.  A page keeps showing a card until it polls       *)
(* again.  The hub waits five seconds for a session, the session goes on.  *)
(***************************************************************************)
EXTENDS Integers, FiniteSets

CONSTANTS
    Sessions,   \* processes that serve approvals, 1..n, each its own instance
    Pages,      \* browser pages and scripts
    MaxAsks,    \* bound: proposals of one session
    Scenes      \* what an instance explores: sets of records, see SceneType

SceneType == [sessions : SUBSET Sessions, pages : SUBSET Pages,
              posts : Nat,       \* bound: decisions sent
              kills : Nat,       \* bound: sessions killed
              timeouts : Nat]    \* bound: calls of the hub that take more than five seconds

ASSUME DeskAssumption ==
    /\ Sessions \subseteq Nat \ {0}
    /\ MaxAsks \in Nat /\ Scenes \subseteq SceneType
    /\ "nobody" \notin Pages /\ "server" \notin Pages

VARIABLES
    phase,    \* per session, how far its process is
    files,    \* sessions with a registration file
    locked,   \* sessions that hold the lock of their registration
    wait,     \* per session: its run still waits for a person
    asks,     \* per session, the proposals it put so far; the last may be waiting
    pending,  \* proposals the servers list: Server.pending
    decided,  \* proposals acted on: Server.decided
    answer,   \* per proposal, what was put in its channel
    got,      \* per proposal, what Ask returned
    cards,    \* the cards pages got; one may be shown, and used, long after
    flight,   \* decisions on their way
    told,     \* decisions whose page was told 200
    dropped,  \* the cards a page dropped: it was told 404 or 409
    left      \* the bounds of this behaviour; posts, kills and timeouts count down

vars == <<phase, files, locked, wait, asks, pending, decided, answer, got, cards, flight, told, dropped, left>>
session == <<phase, files, locked>>
server == <<wait, asks, pending, decided, answer, got>>
page == <<cards, flight, told, dropped>>

Yields == Sessions \X (1..MaxAsks)
Nothing == <<0, 0>>
Direct == 0                      \* the key of a card got from the session itself
Verdict == {"approve", "reject"}
NoAnswer == [verdict |-> "none", shown |-> Nothing, by |-> "nobody"]

\* Mutant: ids that only count, so that another server's card has the same one.
NewIdCounted(s, n) == <<1, n>>
\* The id a server gives the n-th proposal of session s: the number and twelve random characters (s stands for them).
NewId(s, n) == <<s, n>>
\* A proposal in Server.pending; its challenge is the digest of the request, which no other proposal has.
Listed(s, n) == [server |-> s, id |-> NewId(s, n), challenge |-> <<s, n>>]
\* A card as the page got it, directly or under the key of a session of the hub.
Card(key, y) == [key |-> key, id |-> y.id, challenge |-> y.challenge]

Init ==
    /\ phase = [s \in Sessions |-> "new"] /\ files = {} /\ locked = {}
    /\ wait = [s \in Sessions |-> TRUE] /\ asks = [s \in Sessions |-> 0]
    /\ pending = {} /\ decided = {}
    /\ answer = [y \in Yields |-> NoAnswer] /\ got = [y \in Yields |-> "none"]
    /\ cards = {}
    /\ flight = {} /\ told = {} /\ dropped = {}
    /\ left \in Scenes

-----------------------------------------------------------------------------
(* A session's process: it binds the port, registers, ends or is killed.   *)

\* Who answers at the port, at most one.
Bound == {"bound", "locked", "serving", "closing", "rejected", "released"}
Listening == {s \in Sessions : phase[s] \in Bound}

Move(s, to) == phase' = [phase EXCEPT ![s] = to]

StartServer(s) ==
    /\ phase[s] = "new" /\ Listening = {}
    /\ Move(s, "bound")
    /\ UNCHANGED <<files, locked, server, page, left>>

\* Register: the lock file and its lock, then the file the hub looks for.
RegisterLock(s) ==
    /\ phase[s] = "bound"
    /\ Move(s, "locked") /\ locked' = locked \union {s}
    /\ UNCHANGED <<files, server, page, left>>

RegisterFile(s) ==
    /\ phase[s] = "locked"
    /\ Move(s, "serving") /\ files' = files \union {s}
    /\ UNCHANGED <<locked, server, page, left>>

\* The run ends by itself: the registration is taken back, and the server stays until the process exits.
Release(s) ==
    /\ phase[s] \in {"serving", "shut"}
    /\ \A n \in 1..asks[s] : got[<<s, n>>] # "none"
    /\ Move(s, IF phase[s] = "serving" THEN "released" ELSE "gone")
    /\ files' = files \ {s} /\ locked' = locked \ {s}
    /\ UNCHANGED <<server, page, left>>

\* The run is cancelled: Start's goroutine rejects what is pending, then shuts the server down.
Cancel(s) ==
    /\ phase[s] = "serving"
    /\ Move(s, "closing") /\ wait' = [wait EXCEPT ![s] = FALSE]
    /\ UNCHANGED <<files, locked, asks, pending, decided, answer, got, page, left>>

Rejected(s) == {y \in pending : y.server = s}
RejectAll(s) ==
    /\ phase[s] = "closing"
    /\ Move(s, "rejected")
    /\ answer' = [y \in Yields |-> IF Listed(y[1], y[2]) \in Rejected(s)
                                   THEN [verdict |-> "reject", shown |-> y, by |-> "server"] ELSE answer[y]]
    /\ pending' = pending \ Rejected(s)
    /\ UNCHANGED <<files, locked, wait, asks, decided, got, page, left>>

\* Shutdown lets the handlers that began end; three seconds are enough for them.
Shutdown(s) ==
    /\ phase[s] = "rejected"
    /\ ~\E f \in flight : f.at = "channel" /\ f.taken[1] = s
    /\ Move(s, "shut")
    /\ UNCHANGED <<files, locked, server, page, left>>

Exit(s) ==
    /\ phase[s] = "released"
    /\ Move(s, "gone")
    /\ UNCHANGED <<files, locked, server, page, left>>

\* A kill leaves the registration behind and frees its lock; what the server was about to do is not done.
Kill(s) ==
    /\ phase[s] \in Bound \union {"shut"} /\ left.kills > 0
    /\ left' = [left EXCEPT !.kills = @ - 1]
    /\ Move(s, "gone") /\ locked' = locked \ {s}
    /\ pending' = pending \ Rejected(s)
    /\ flight' = {f \in flight : f.taken[1] # s}
    /\ UNCHANGED <<files, wait, asks, decided, answer, got, cards, told, dropped>>

-----------------------------------------------------------------------------
(* A run asks: approvalAPI.Ask, one proposal at a time.                    *)

Waiting(s) == asks[s] > 0 /\ got[<<s, asks[s]>>] = "none" /\ phase[s] \notin {"gone", "new"}

\* Also when the wait is over already: what it then puts up is withdrawn at once.
PendSigned(s) ==
    /\ phase[s] \in {"serving", "closing", "rejected", "shut"} /\ ~Waiting(s) /\ asks[s] < MaxAsks
    /\ asks' = [asks EXCEPT ![s] = @ + 1]
    /\ pending' = pending \union {Listed(s, asks[s] + 1)}
    /\ UNCHANGED <<session, wait, decided, answer, got, page, left>>

\* The run's time is up.
WaitEnds(s) ==
    /\ phase[s] = "serving" /\ wait[s]
    /\ wait' = [wait EXCEPT ![s] = FALSE]
    /\ UNCHANGED <<session, asks, pending, decided, answer, got, page, left>>

\* What Ask returns counts only while the wait is on (askHuman).
Counted(s, verdict) == IF wait[s] THEN verdict ELSE "ended"

Receive(s) ==
    /\ Waiting(s)
    /\ LET y == <<s, asks[s]>> IN
       /\ answer[y] # NoAnswer
       /\ got' = [got EXCEPT ![y] = Counted(s, answer[y].verdict)]
    /\ UNCHANGED <<session, wait, asks, pending, decided, answer, page, left>>

\* Mutant: Ask waits for the channel only.
WithdrawAnswered(s) ==
    /\ Waiting(s) /\ ~wait[s] /\ answer[<<s, asks[s]>>] # NoAnswer
    /\ got' = [got EXCEPT ![<<s, asks[s]>>] = "ended"]
    /\ UNCHANGED <<session, wait, asks, pending, decided, answer, page, left>>
Withdraw(s) ==
    /\ Waiting(s) /\ ~wait[s]
    /\ LET y == <<s, asks[s]>> IN
       /\ pending' = pending \ {Listed(s, asks[s])}
       /\ decided' = decided \union {<<s, NewId(s, asks[s])>>}
       /\ got' = [got EXCEPT ![y] = "ended"]
    /\ UNCHANGED <<session, wait, asks, answer, page, left>>

-----------------------------------------------------------------------------
(* Pages.  A page asks the session, or the hub, for its cards.             *)

Show(key) == cards' = cards \union {Card(key, y) : y \in {z \in pending : z.server \in Listening}}

DirectList ==
    /\ Listening # {}
    /\ Show(Direct)
    /\ UNCHANGED <<session, server, flight, told, dropped, left>>

\* Hub.sessions: registered, and alive.  A look that meets another's try of the lock takes a dead session for a live one.
Known(s) == s \in files /\ s \in locked
Mistaken(s) == s \in files /\ s \notin locked

\* Hub.list, for one session: one that cannot be reached loses its registration, one that is slow does not.
HubList(s) ==
    /\ Known(s) \/ Mistaken(s)
    /\ \/ Listening # {} /\ Show(s) /\ UNCHANGED <<files, left>>
       \/ Listening = {} /\ files' = files \ {s} /\ UNCHANGED <<cards, left>>
       \/ /\ left.timeouts > 0 /\ left' = [left EXCEPT !.timeouts = @ - 1]
          /\ UNCHANGED <<files, cards>>
    /\ UNCHANGED <<phase, locked, server, flight, told, dropped>>

-----------------------------------------------------------------------------
(* A decision: POST /v1/yields/{id}/approve or reject.  The page sends the *)
(* challenge of the card it shows, a script need not.                      *)

\* What the page is told; 502 tells it nothing, and it keeps the card.
Tell(f, status) ==
    /\ told' = told \union (IF f.awaited /\ status = 200 THEN {[page |-> f.page, verdict |-> f.verdict, taken |-> f.taken]} ELSE {})
    /\ dropped' = dropped \union (IF f.awaited /\ status \in {404, 409} THEN {f.card} ELSE {})

Post(p, c, v, named) ==
    /\ c.key # Direct => named
    /\ left.posts > 0 /\ left' = [left EXCEPT !.posts = @ - 1]
    /\ c \in cards /\ ~\E f \in flight : f.page = p /\ f.awaited
    /\ flight' = flight \union {[page |-> p, card |-> c, verdict |-> v, named |-> named, awaited |-> TRUE, taken |-> Nothing,
                                 at |-> IF c.key = Direct THEN "session" ELSE "hub"]}
    /\ UNCHANGED <<session, server, cards, told, dropped>>

\* Hub.yield: the session the card was got from, if it is still known.
Forward(f) ==
    /\ f.at = "hub"
    /\ \/ /\ Known(f.card.key) \/ Mistaken(f.card.key)
          /\ flight' = (flight \ {f}) \union {[f EXCEPT !.at = "session"]} /\ UNCHANGED <<told, dropped>>
       \/ ~Known(f.card.key) /\ flight' = flight \ {f} /\ Tell(f, 404)
    /\ UNCHANGED <<session, server, cards, left>>

\* handleDecision, up to its unlock, at whatever server listens.
Found(f, s) == {y \in pending : y.server = s /\ y.id = f.card.id}
Same(f, y) == f.named => f.card.challenge = y.challenge

Take(f, s) ==
    /\ f.at = "session" /\ s \in Listening
    /\ \E y \in Found(f, s) :
        /\ Same(f, y)
        /\ pending' = pending \ {y} /\ decided' = decided \union {<<s, y.id>>}
        /\ flight' = (flight \ {f}) \union {[f EXCEPT !.at = "channel", !.taken = y.challenge]}
    /\ UNCHANGED <<session, wait, asks, answer, got, cards, told, dropped, left>>

Conflict(f, s) == (\E y \in Found(f, s) : ~Same(f, y)) \/ (Found(f, s) = {} /\ <<s, f.card.id>> \in decided)
TurnDown(f) ==
    /\ f.at = "session"
    /\ \/ \E s \in Listening : Conflict(f, s) /\ Tell(f, 409)
       \/ \E s \in Listening : Found(f, s) = {} /\ ~Conflict(f, s) /\ Tell(f, 404)
       \/ Listening = {} /\ Tell(f, 502)
    /\ flight' = flight \ {f}
    /\ UNCHANGED <<session, server, cards, left>>

\* Mutant: an answer nobody waits for any more is dropped, and its page told 200.
PutInTime(f) ==
    /\ f.at = "channel"
    /\ answer' = IF wait[f.taken[1]] THEN [answer EXCEPT ![f.taken] = [verdict |-> f.verdict, shown |-> f.card.challenge, by |-> f.page]] ELSE answer
    /\ flight' = flight \ {f} /\ Tell(f, 200)
    /\ UNCHANGED <<session, wait, asks, pending, decided, got, cards, left>>

\* handleDecision, after it: the answer is put in the channel and the page told.
Put(f) ==
    /\ f.at = "channel"
    /\ answer' = [answer EXCEPT ![f.taken] = [verdict |-> f.verdict, shown |-> f.card.challenge, by |-> f.page]]
    /\ flight' = flight \ {f} /\ Tell(f, 200)
    /\ UNCHANGED <<session, wait, asks, pending, decided, got, cards, left>>

\* The hub gives up waiting; the session does not know.
GiveUp(f) ==
    /\ f.at # "hub" /\ f.awaited /\ f.card.key # Direct /\ left.timeouts > 0
    /\ left' = [left EXCEPT !.timeouts = @ - 1]
    /\ flight' = (flight \ {f}) \union {[f EXCEPT !.awaited = FALSE]}
    /\ UNCHANGED <<session, server, cards, told, dropped>>

\* Mutant: every registration is taken for a dead session's.
ReconcileAll ==
    /\ files # {}
    /\ files' = {}
    /\ UNCHANGED <<phase, locked, server, page, left>>
\* A hub starts: it removes the registrations whose lock is free.
Reconcile ==
    /\ \E s \in files : s \notin locked
    /\ files' = files \intersect locked
    /\ UNCHANGED <<phase, locked, server, page, left>>

Own(s) == RejectAll(s) \/ Receive(s) \/ Withdraw(s) \/ Shutdown(s)
Handle(f) == Forward(f) \/ (\E s \in Sessions : Take(f, s)) \/ TurnDown(f) \/ Put(f)

Next ==
    \/ \E s \in left.sessions :
        \/ StartServer(s) \/ RegisterLock(s) \/ RegisterFile(s) \/ Release(s) \/ Cancel(s) \/ Exit(s) \/ Kill(s)
        \/ PendSigned(s) \/ WaitEnds(s) \/ Own(s)
    \/ DirectList
    \/ \E s \in Sessions : HubList(s)
    \/ \E p \in left.pages, c \in cards, v \in Verdict, named \in BOOLEAN : Post(p, c, v, named)
    \/ \E f \in flight : Handle(f) \/ GiveUp(f)
    \/ Reconcile

Spec == Init /\ [][Next]_vars
\* A session's goroutines and the handlers of its server run on; nobody makes a person decide or a run end.
FairSpec ==
    /\ Spec
    /\ \A s \in Sessions : WF_vars(Own(s))
    /\ WF_vars(\E f \in flight : Handle(f))

-----------------------------------------------------------------------------
(* Properties. *)

\* A run only ever gets an answer that a person gave to the very request it asked about, whatever ports, keys and old cards are reused
\* (server.go: "a page that still shows an old card cannot decide a new request").
AnswersItsRequest == \A y \in Yields : answer[y].by \in Pages => answer[y].shown = y

\* One decision wins: whoever is told 200 is the only one, and said what the run's channel holds, whatever retries and races there were.
OneDecisionWins ==
    \A t \in told :
        /\ answer[t.taken].by = t.page /\ answer[t.taken].verdict = t.verdict
        /\ \A u \in told : u.taken = t.taken => u = t

\* A session that serves is on the hub's page, whatever calls failed or timed out and however many hubs cleaned up.
ServingIsListed == \A s \in Sessions : phase[s] = "serving" => s \in files /\ s \in locked

\* A card a page dropped waits for nobody any more: 404 and 409 are never the answer while a person is still being asked, whatever the
\* hub knew, lost or timed out on (app.js takes the card away for good).  A card got under the key of a dead session is another matter.
DroppedIsOver ==
    \A c \in dropped :
        c.key \in {Direct, c.challenge[1]} /\ Listed(c.challenge[1], c.challenge[2]) \in pending => ~wait[c.challenge[1]]

\* What pages are told of their decisions is so: 200 to the one that won, 404 and 409 when nobody is asked any more.
PagesAreToldTrue == OneDecisionWins /\ DroppedIsOver

\* A proposal a page was told to have decided reaches its run, and a run whose wait is over stops waiting, unless it is killed.
EveryAskReturns ==
    \A s \in Sessions :
        Waiting(s) /\ (~wait[s] \/ \E t \in told : t.taken = <<s, asks[s]>>) ~> ~Waiting(s)
=============================================================================
