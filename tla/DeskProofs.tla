----------------------------- MODULE DeskProofs -----------------------------
(***************************************************************************)
(* What pages and runs are told holds for any number of sessions, pages,   *)
(* proposals, kills and timeouts.                                          *)
(***************************************************************************)
EXTENDS Desk, TLAPS

Phases == Bound \union {"new", "shut", "gone"}
Asking == {"serving", "closing", "rejected", "shut"}
Cards == {[key |-> k, id |-> y, challenge |-> y] : k \in Sessions \union {Direct}, y \in Yields}
Flights == [page : Pages, card : Cards, verdict : Verdict, named : BOOLEAN, awaited : BOOLEAN,
            taken : Yields \union {Nothing}, at : {"hub", "session", "channel"}]
Answers == [verdict : Verdict \union {"none"}, shown : Yields \union {Nothing}, by : Pages \union {"nobody", "server"}]

SessionsTyped ==
    /\ phase \in [Sessions -> Phases]
    /\ files \subseteq Sessions /\ locked \subseteq Sessions
    /\ left \in SceneType
ServersTyped ==
    /\ wait \in [Sessions -> BOOLEAN] /\ asks \in [Sessions -> 0..MaxAsks]
    /\ \A z \in pending : /\ z.challenge \in Yields /\ z.server = z.challenge[1] /\ z.id = z.challenge
                          /\ z = Listed(z.challenge[1], z.challenge[2])
    /\ answer \in [Yields -> Answers] /\ got \in [Yields -> Verdict \union {"none", "ended"}]
PagesTyped ==
    /\ cards \subseteq Cards /\ dropped \subseteq Cards
    /\ flight \subseteq Flights
    /\ told \subseteq [page : Pages, verdict : Verdict, taken : Yields]
Typed == SessionsTyped /\ ServersTyped /\ PagesTyped

\* One session has the port; one that serves, or is ending, still has its registration; one whose server ends waits no more.
PhasesFit ==
    /\ \A s, r \in Listening : s = r
    /\ \A s \in Sessions :
        /\ phase[s] = "locked" => s \in locked
        /\ phase[s] \in {"serving", "closing", "rejected"} => s \in files /\ s \in locked
        /\ phase[s] \in {"closing", "rejected", "shut"} => ~wait[s]
        /\ phase[s] \in {"new", "bound", "locked"} => asks[s] = 0

\* What is answered, taken, returned or shown was asked.
Asked(y) == y[2] <= asks[y[1]]
OnlyAsked ==
    /\ \A z \in pending : Asked(z.challenge)
    /\ \A y \in Yields : answer[y] # NoAnswer \/ got[y] # "none" => Asked(y)
    /\ \A c \in cards \union dropped : Asked(c.challenge)
    /\ \A f \in flight : Asked(f.card.challenge)

\* A proposal is listed, or taken by one decision, or answered: never two of them.
OnlyOnce ==
    /\ \A z \in pending : answer[z.challenge] = NoAnswer
    /\ \A f \in flight : f.at = "hub" => f.card.key # Direct
    /\ \A f \in flight : IF f.at = "channel" THEN f.taken = f.card.challenge ELSE f.taken = Nothing
    /\ \A f \in flight : f.at = "channel" => answer[f.taken] = NoAnswer /\ \A z \in pending : z.challenge # f.taken
    /\ \A f, g \in flight : f.at = "channel" /\ g.at = "channel" /\ f.taken = g.taken => f = g

\* What is listed is listed by a server that is there, and its run is still asking.
ListedAsks == \A z \in pending : phase[z.challenge[1]] \in Asking /\ got[z.challenge] = "none"

AnswersFit == \A y \in Yields : answer[y] # NoAnswer => answer[y].shown = y
ToldFits == \A t \in told : answer[t.taken].by = t.page /\ answer[t.taken].verdict = t.verdict

Inv == Typed /\ PhasesFit /\ OnlyAsked /\ OnlyOnce /\ ListedAsks /\ AnswersFit /\ ToldFits /\ DroppedIsOver

\* What the operators on proposals return.
LEMMA ListedAs ==
    /\ \A y \in Yields : y = <<y[1], y[2]>> /\ y[1] \in Sessions /\ y[2] \in 1..MaxAsks /\ y # Nothing
    /\ \A y \in Yields : Listed(y[1], y[2]).server = y[1] /\ Listed(y[1], y[2]).id = y /\ Listed(y[1], y[2]).challenge = y
    /\ \A s \in Sessions, n \in 1..MaxAsks : <<s, n>> \in Yields /\ <<s, n>>[1] = s /\ <<s, n>>[2] = n /\ NewId(s, n) = <<s, n>>
    /\ \A c \in Cards : c.challenge \in Yields /\ c.id = c.challenge /\ c.key \in Sessions \union {Direct}
<1>1. \A y \in Yields : y = <<y[1], y[2]>> /\ y[1] \in Sessions /\ y[2] \in 1..MaxAsks /\ y # Nothing
  BY DeskAssumption DEF Yields, Nothing
<1>2. \A y \in Yields : Listed(y[1], y[2]).server = y[1] /\ Listed(y[1], y[2]).id = y /\ Listed(y[1], y[2]).challenge = y
  BY <1>1 DEF Listed, NewId
<1>3. \A s \in Sessions, n \in 1..MaxAsks : <<s, n>> \in Yields /\ <<s, n>>[1] = s /\ <<s, n>>[2] = n /\ NewId(s, n) = <<s, n>>
  BY DEF Yields, NewId
<1>4. \A c \in Cards : c.challenge \in Yields /\ c.id = c.challenge /\ c.key \in Sessions \union {Direct}
  BY DEF Cards
<1> QED BY <1>1, <1>2, <1>3, <1>4

\* A listed proposal is the one its challenge names.
LEMMA ListedIs ==
    ASSUME ServersTyped, NEW y \in Yields, NEW z \in pending
    PROVE  z.challenge = y <=> z = Listed(y[1], y[2])
<1>1. z = Listed(z.challenge[1], z.challenge[2])
  BY DEF ServersTyped
<1>2. Listed(y[1], y[2]).challenge = y
  BY ListedAs
<1> QED BY <1>1, <1>2, Zenon

\* A card that is got, and a decision on its way.
LEMMA CardIs ==
    ASSUME ServersTyped, NEW key \in Sessions \union {Direct}, NEW z \in pending
    PROVE  Card(key, z) \in Cards /\ Card(key, z).challenge = z.challenge
<1>1. Card(key, z) = [key |-> key, id |-> z.challenge, challenge |-> z.challenge] /\ z.challenge \in Yields
  BY DEF Card, ServersTyped
<1> QED BY <1>1, ListedAs DEF Cards

LEMMA FlightIs ==
    ASSUME NEW f \in Flights
    PROVE  /\ f.page \in Pages /\ f.verdict \in Verdict /\ f.taken \in Yields \union {Nothing}
           /\ f.card \in Cards /\ f.card.challenge \in Yields /\ f.card.id = f.card.challenge
<1>1. f.page \in Pages /\ f.verdict \in Verdict /\ f.taken \in Yields \union {Nothing} /\ f.card \in Cards
  BY DEF Flights, Verdict
<1> QED BY <1>1, ListedAs

\* A decision that was told is in its run's channel.
LEMMA ToldIsAnswered ==
    ASSUME PagesTyped, ToldFits, NEW t \in told
    PROVE  t.taken \in Yields /\ t.page \in Pages /\ answer[t.taken] # NoAnswer
<1>1. t.page \in Pages /\ t.taken \in Yields
  BY DEF PagesTyped
<1>2. answer[t.taken].by = t.page /\ NoAnswer.by = "nobody"
  BY DEF ToldFits, NoAnswer
<1> QED BY <1>1, <1>2, DeskAssumption

\* A proposal is listed while its server is there; unless it serves, its run waits no more.
LEMMA ListedWaits ==
    ASSUME Inv, NEW y \in Yields, Listed(y[1], y[2]) \in pending
    PROVE  /\ y[1] \in Sessions /\ phase[y[1]] \in Asking
           /\ phase[y[1]] # "serving" => ~wait[y[1]]
<1>1. y[1] \in Sessions /\ Listed(y[1], y[2]).challenge = y
  BY ListedAs
<1>2. phase[y[1]] \in Asking
  BY <1>1 DEF Inv, ListedAsks
<1> QED BY <1>1, <1>2 DEF Inv, PhasesFit, Asking

\* A decision on its way.
LEMMA FlightFacts ==
    ASSUME Inv, NEW f \in flight
    PROVE  /\ f \in Flights /\ f.card \in Cards /\ f.card.challenge \in Yields /\ f.card.id = f.card.challenge
           /\ f.page \in Pages /\ f.verdict \in Verdict /\ f.taken \in Yields \union {Nothing}
           /\ f.at = "hub" => f.card.key # Direct
           /\ f.at # "channel" => f.taken = Nothing
           /\ f.at = "channel" => f.taken = f.card.challenge /\ answer[f.taken] = NoAnswer
           /\ Asked(f.card.challenge)
<1>1. f \in Flights
  BY DEF Inv, Typed, PagesTyped
<1> QED BY <1>1, FlightIs DEF Inv, OnlyOnce, OnlyAsked

LEMMA StartServerKeeps ==
    ASSUME Inv, NEW s \in Sessions, StartServer(s)
    PROVE  Inv'
<1>1. SessionsTyped'
  BY DEF Inv, Typed, StartServer, Move, Bound, SessionsTyped, Phases
<1>2. PhasesFit'
  BY DEF Inv, StartServer, server, Move, Listening, PhasesFit
<1>3. ListedAsks'
  BY DEF Inv, StartServer, server, Move, ListedAsks, Asking
<1>4. ServersTyped' /\ PagesTyped' /\ OnlyAsked' /\ OnlyOnce' /\ AnswersFit' /\ ToldFits' /\ DroppedIsOver'
  BY DEF Inv, Typed, StartServer, server, page, ServersTyped, PagesTyped, OnlyAsked, Asked, OnlyOnce, AnswersFit, ToldFits,
      DroppedIsOver
<1> QED BY <1>1, <1>2, <1>3, <1>4 DEF Inv, Typed

LEMMA RegisterLockKeeps ==
    ASSUME Inv, NEW s \in Sessions, RegisterLock(s)
    PROVE  Inv'
<1>1. SessionsTyped'
  BY DEF Inv, Typed, RegisterLock, Move, Bound, SessionsTyped, Phases
<1>2. PhasesFit'
  BY DEF Inv, RegisterLock, server, Move, Listening, Bound, PhasesFit
<1>3. ListedAsks'
  BY DEF Inv, RegisterLock, server, Move, ListedAsks, Asking
<1>4. ServersTyped' /\ PagesTyped' /\ OnlyAsked' /\ OnlyOnce' /\ AnswersFit' /\ ToldFits' /\ DroppedIsOver'
  BY DEF Inv, Typed, RegisterLock, server, page, ServersTyped, PagesTyped, OnlyAsked, Asked, OnlyOnce, AnswersFit, ToldFits,
      DroppedIsOver
<1> QED BY <1>1, <1>2, <1>3, <1>4 DEF Inv, Typed

LEMMA RegisterFileKeeps ==
    ASSUME Inv, NEW s \in Sessions, RegisterFile(s)
    PROVE  Inv'
<1>1. SessionsTyped'
  BY DEF Inv, Typed, RegisterFile, Move, Bound, SessionsTyped, Phases
<1>2. PhasesFit'
  BY DEF Inv, RegisterFile, server, Move, Listening, Bound, PhasesFit
<1>3. ListedAsks'
  BY DEF Inv, RegisterFile, server, Move, ListedAsks, Asking
<1>4. ServersTyped' /\ PagesTyped' /\ OnlyAsked' /\ OnlyOnce' /\ AnswersFit' /\ ToldFits' /\ DroppedIsOver'
  BY DEF Inv, Typed, RegisterFile, server, page, ServersTyped, PagesTyped, OnlyAsked, Asked, OnlyOnce, AnswersFit, ToldFits,
      DroppedIsOver
<1> QED BY <1>1, <1>2, <1>3, <1>4 DEF Inv, Typed

LEMMA ReleaseKeeps ==
    ASSUME Inv, NEW s \in Sessions, Release(s)
    PROVE  Inv'
<1>1. SessionsTyped'
  BY DEF Inv, Typed, Release, Move, Bound, SessionsTyped, Phases
<1>2. PhasesFit'
  BY DEF Inv, Typed, Release, server, Move, Listening, Bound, PhasesFit, SessionsTyped
<1>3. ListedAsks'
  <2> SUFFICES ASSUME NEW z \in pending PROVE z.challenge[1] # s
    BY DEF Inv, Typed, Release, Move, server, ListedAsks, SessionsTyped, ServersTyped, Yields
  <2>1. z.challenge = <<z.challenge[1], z.challenge[2]>> /\ z.challenge[2] \in 1..asks[z.challenge[1]]
    BY ListedAs DEF Inv, Typed, ServersTyped, OnlyAsked, Asked
  <2>2. got[z.challenge] = "none"
    BY DEF Inv, ListedAsks
  <2> QED BY <2>1, <2>2 DEF Release
<1>4. ServersTyped' /\ PagesTyped' /\ OnlyAsked' /\ OnlyOnce' /\ AnswersFit' /\ ToldFits' /\ DroppedIsOver'
  BY DEF Inv, Typed, Release, server, page, ServersTyped, PagesTyped, OnlyAsked, Asked, OnlyOnce, AnswersFit, ToldFits,
      DroppedIsOver
<1> QED BY <1>1, <1>2, <1>3, <1>4 DEF Inv, Typed

LEMMA CancelKeeps ==
    ASSUME Inv, NEW s \in Sessions, Cancel(s)
    PROVE  Inv'
<1>1. SessionsTyped'
  BY DEF Inv, Typed, Cancel, Move, Bound, SessionsTyped, Phases
<1>2. ServersTyped'
  BY DEF Inv, Typed, Cancel, ServersTyped
<1>3. PhasesFit'
  BY DEF Inv, Typed, Cancel, Move, Listening, Bound, PhasesFit, ServersTyped
<1>4. ListedAsks'
  BY DEF Inv, Cancel, Move, ListedAsks, Asking
<1>5. DroppedIsOver'
  BY DEF Inv, Cancel, page, DroppedIsOver
<1>6. PagesTyped' /\ OnlyAsked' /\ OnlyOnce' /\ AnswersFit' /\ ToldFits'
  BY DEF Inv, Typed, Cancel, page, PagesTyped, OnlyAsked, Asked, OnlyOnce, AnswersFit, ToldFits
<1> QED BY <1>1, <1>2, <1>3, <1>4, <1>5, <1>6 DEF Inv, Typed

LEMMA RejectAllKeeps ==
    ASSUME Inv, NEW s \in Sessions, RejectAll(s)
    PROVE  Inv'
<1>1. \A y \in Yields : [verdict |-> "reject", shown |-> y, by |-> "server"] \in Answers
          /\ [verdict |-> "reject", shown |-> y, by |-> "server"].shown = y
  BY DEF Answers, Verdict
<1>2. \A y \in Yields : answer'[y] = answer[y] \/ (Listed(y[1], y[2]) \in pending /\ answer'[y] = [verdict |-> "reject", shown |-> y, by |-> "server"])
  BY DEF RejectAll, Rejected
<1>3. \A z \in pending : Listed(z.challenge[1], z.challenge[2]) = z /\ z.challenge \in Yields
  BY DEF Inv, Typed, ServersTyped
<1>4. pending' \subseteq pending /\ \A z \in pending' : answer'[z.challenge] = answer[z.challenge]
  BY <1>3 DEF RejectAll
<1>5. \A y \in Yields : Listed(y[1], y[2]) \in pending => answer[y] = NoAnswer /\ \A f \in flight : f.at = "channel" => f.taken # y
  <2> SUFFICES ASSUME NEW y \in Yields, Listed(y[1], y[2]) \in pending
               PROVE  answer[y] = NoAnswer /\ \A f \in flight : f.at = "channel" => f.taken # y
    OBVIOUS
  <2>1. Listed(y[1], y[2]).challenge = y
    BY ListedAs
  <2> QED BY <2>1 DEF Inv, OnlyOnce
<1>6. flight' = flight /\ told' = told
  BY DEF RejectAll, page
<1>7. SessionsTyped'
  BY DEF Inv, Typed, RejectAll, Move, Bound, SessionsTyped, Phases
<1>8. ServersTyped'
  <2>1. answer' \in [Yields -> Answers]
    BY <1>1 DEF Inv, Typed, ServersTyped, RejectAll
  <2> QED BY <1>4, <2>1 DEF Inv, Typed, ServersTyped, RejectAll
<1>9. PhasesFit'
  BY DEF Inv, RejectAll, Move, Listening, Bound, PhasesFit
<1>10. OnlyAsked'
  BY <1>2, ListedAs DEF Inv, RejectAll, page, OnlyAsked, Asked
<1>11. OnlyOnce'
  <2>1. \A f \in flight : f.at = "channel" => f.taken \in Yields
    BY FlightIs DEF Inv, OnlyOnce, Typed, PagesTyped
  <2> QED BY <1>2, <1>4, <1>5, <1>6, <2>1 DEF Inv, OnlyOnce
<1>12. ListedAsks'
  BY DEF Inv, RejectAll, Move, ListedAsks, Asking
<1>13. AnswersFit'
  BY <1>1, <1>2 DEF Inv, AnswersFit
<1>14. ToldFits'
  BY <1>2, <1>5, <1>6, ToldIsAnswered DEF Inv, Typed, ToldFits
<1>15. DroppedIsOver'
  BY DEF Inv, RejectAll, page, DroppedIsOver
<1>16. PagesTyped'
  BY DEF Inv, Typed, RejectAll, page, PagesTyped
<1> QED BY <1>7, <1>8, <1>9, <1>10, <1>11, <1>12, <1>13, <1>14, <1>15, <1>16 DEF Inv, Typed

LEMMA ShutdownKeeps ==
    ASSUME Inv, NEW s \in Sessions, Shutdown(s)
    PROVE  Inv'
<1>1. SessionsTyped'
  BY DEF Inv, Typed, Shutdown, Move, SessionsTyped, Phases
<1>2. PhasesFit'
  BY DEF Inv, Shutdown, server, Move, Listening, Bound, PhasesFit
<1>3. ListedAsks'
  BY DEF Inv, Shutdown, server, Move, ListedAsks, Asking
<1>4. ServersTyped' /\ PagesTyped' /\ OnlyAsked' /\ OnlyOnce' /\ AnswersFit' /\ ToldFits' /\ DroppedIsOver'
  BY DEF Inv, Typed, Shutdown, server, page, ServersTyped, PagesTyped, OnlyAsked, Asked, OnlyOnce, AnswersFit, ToldFits,
      DroppedIsOver
<1> QED BY <1>1, <1>2, <1>3, <1>4 DEF Inv, Typed

LEMMA ExitKeeps ==
    ASSUME Inv, NEW s \in Sessions, Exit(s)
    PROVE  Inv'
<1>1. SessionsTyped'
  BY DEF Inv, Typed, Exit, Move, SessionsTyped, Phases
<1>2. PhasesFit'
  BY DEF Inv, Exit, server, Move, Listening, Bound, PhasesFit
<1>3. ListedAsks'
  BY DEF Inv, Exit, server, Move, ListedAsks, Asking
<1>4. ServersTyped' /\ PagesTyped' /\ OnlyAsked' /\ OnlyOnce' /\ AnswersFit' /\ ToldFits' /\ DroppedIsOver'
  BY DEF Inv, Typed, Exit, server, page, ServersTyped, PagesTyped, OnlyAsked, Asked, OnlyOnce, AnswersFit, ToldFits,
      DroppedIsOver
<1> QED BY <1>1, <1>2, <1>3, <1>4 DEF Inv, Typed

LEMMA KillKeeps ==
    ASSUME Inv, NEW s \in Sessions, Kill(s)
    PROVE  Inv'
<1>1. SessionsTyped'
  BY DEF Inv, Typed, Kill, Move, SessionsTyped, Phases, SceneType
<1>2. ServersTyped'
  BY DEF Inv, Typed, Kill, ServersTyped
<1>3. PagesTyped'
  BY DEF Inv, Typed, Kill, PagesTyped
<1>4. PhasesFit'
  BY DEF Inv, Typed, Kill, Move, Listening, Bound, PhasesFit, SessionsTyped
<1>5. OnlyAsked'
  BY DEF Inv, Kill, OnlyAsked, Asked
<1>6. OnlyOnce'
  BY DEF Inv, Kill, OnlyOnce
<1>7. ListedAsks'
  BY DEF Inv, Typed, Kill, Move, Rejected, ListedAsks, ServersTyped
<1>8. DroppedIsOver'
  BY DEF Inv, Kill, DroppedIsOver
<1>9. AnswersFit' /\ ToldFits'
  BY DEF Inv, Kill, AnswersFit, ToldFits
<1> QED BY <1>1, <1>2, <1>3, <1>4, <1>5, <1>6, <1>7, <1>8, <1>9 DEF Inv, Typed

LEMMA PendSignedKeeps ==
    ASSUME Inv, NEW s \in Sessions, PendSigned(s)
    PROVE  Inv'
<1>1. <<s, asks[s] + 1>> \in Yields /\ asks[s] \in 0..MaxAsks /\ asks' = [asks EXCEPT ![s] = asks[s] + 1]
  BY ListedAs, DeskAssumption DEF Inv, Typed, ServersTyped, PendSigned
<1>2. \A r \in Sessions : asks'[r] = IF r = s THEN asks[s] + 1 ELSE asks[r]
  BY <1>1 DEF Inv, Typed, ServersTyped
<1>3. Listed(s, asks[s] + 1).server = s /\ Listed(s, asks[s] + 1).id = <<s, asks[s] + 1>> /\ Listed(s, asks[s] + 1).challenge = <<s, asks[s] + 1>>
  BY DEF Listed, NewId
<1>4. \A y \in Yields : Asked(y) => Asked(y)' /\ y # <<s, asks[s] + 1>>
  BY <1>1, <1>2, ListedAs, DeskAssumption DEF Inv, Typed, ServersTyped, Asked
<1>5. \A y \in Yields : (y \in Yields /\ y = <<s, asks[s] + 1>>) => Asked(y)'
  BY <1>1, <1>2, ListedAs DEF Asked
<1>6. pending' = pending \union {Listed(s, asks[s] + 1)} /\ UNCHANGED <<phase, wait, answer, got, cards, flight, told, dropped>>
  BY DEF PendSigned, session, page
<1>7. \A z \in pending : z.challenge \in Yields /\ Asked(z.challenge)
  BY DEF Inv, Typed, ServersTyped, OnlyAsked
<1>8. \A f \in flight : f.card.challenge \in Yields /\ Asked(f.card.challenge)
  BY FlightIs DEF Inv, Typed, PagesTyped, OnlyAsked
<1>9. \A c \in cards \union dropped : c.challenge \in Yields /\ Asked(c.challenge)
  BY ListedAs DEF Inv, Typed, PagesTyped, OnlyAsked
<1>10. answer[<<s, asks[s] + 1>>] = NoAnswer /\ got[<<s, asks[s] + 1>>] = "none"
  BY <1>1, <1>4 DEF Inv, OnlyAsked
<1>11. ServersTyped'
  <2>1. asks' \in [Sessions -> 0..MaxAsks]
    BY DeskAssumption DEF Inv, Typed, ServersTyped, PendSigned
  <2>2. Listed(s, asks[s] + 1) = Listed(<<s, asks[s] + 1>>[1], <<s, asks[s] + 1>>[2])
    OBVIOUS
  <2> QED BY <1>1, <1>3, <1>6, <2>1, <2>2 DEF Inv, Typed, ServersTyped
<1>12. PhasesFit'
  BY DEF Inv, PendSigned, session, PhasesFit, Listening
<1>13. OnlyAsked'
  <2>1. \A z \in pending' : z.challenge \in Yields /\ Asked(z.challenge)'
    BY <1>1, <1>3, <1>4, <1>5, <1>6, <1>7
  <2>2. \A y \in Yields : (answer'[y] # NoAnswer \/ got'[y] # "none") => Asked(y)'
    BY <1>4, <1>6 DEF Inv, OnlyAsked
  <2> QED BY <1>4, <1>6, <1>8, <1>9, <2>1, <2>2 DEF OnlyAsked
<1>14. OnlyOnce'
  BY <1>3, <1>4, <1>6, <1>8, <1>10 DEF Inv, OnlyOnce
<1>15. ListedAsks'
  BY <1>3, <1>6, <1>10 DEF Inv, ListedAsks, PendSigned, Asking
<1>16. DroppedIsOver'
  <2>1. \A c \in dropped : Listed(c.challenge[1], c.challenge[2]).challenge = c.challenge
    BY <1>9, ListedAs
  <2>2. \A c \in dropped : Listed(c.challenge[1], c.challenge[2]) \in pending' => Listed(c.challenge[1], c.challenge[2]) \in pending
    BY <1>3, <1>4, <1>6, <1>9, <2>1
  <2> QED BY <1>6, <2>2 DEF Inv, DroppedIsOver
<1>17. SessionsTyped' /\ PagesTyped' /\ AnswersFit' /\ ToldFits'
  BY <1>6 DEF Inv, Typed, PendSigned, session, SessionsTyped, PagesTyped, AnswersFit, ToldFits
<1> QED BY <1>11, <1>12, <1>13, <1>14, <1>15, <1>16, <1>17 DEF Inv, Typed

LEMMA WaitEndsKeeps ==
    ASSUME Inv, NEW s \in Sessions, WaitEnds(s)
    PROVE  Inv'
<1>1. ServersTyped'
  BY DEF Inv, Typed, WaitEnds, ServersTyped
<1>2. PhasesFit'
  BY DEF Inv, WaitEnds, session, PhasesFit, Listening
<1>3. DroppedIsOver'
  BY DEF Inv, WaitEnds, page, DroppedIsOver
<1>4. SessionsTyped' /\ PagesTyped' /\ OnlyAsked' /\ OnlyOnce' /\ ListedAsks' /\ AnswersFit' /\ ToldFits'
  BY DEF Inv, Typed, WaitEnds, session, page, SessionsTyped, PagesTyped, OnlyAsked, Asked, OnlyOnce, ListedAsks, AnswersFit,
      ToldFits
<1> QED BY <1>1, <1>2, <1>3, <1>4 DEF Inv, Typed

LEMMA ReceiveKeeps ==
    ASSUME Inv, NEW s \in Sessions, Receive(s)
    PROVE  Inv'
<1>1. ServersTyped'
  <2>1. <<s, asks[s]>> \in Yields
    BY ListedAs DEF Inv, Typed, ServersTyped, Receive, Waiting
  <2>2. answer[<<s, asks[s]>>].verdict \in Verdict \union {"none"}
    BY <2>1 DEF Inv, Typed, ServersTyped, Answers
  <2>3. Counted(s, answer[<<s, asks[s]>>].verdict) \in Verdict \union {"none", "ended"}
    BY <2>2 DEF Counted
  <2> QED BY <2>1, <2>3 DEF Inv, Typed, ServersTyped, Receive
<1>2. OnlyAsked'
  BY DEF Inv, Receive, page, OnlyAsked, Asked
<1>3. ListedAsks'
  <2>1. \A z \in pending : z.challenge # <<s, asks[s]>>
    BY DEF Inv, OnlyOnce, Receive
  <2> QED BY <2>1 DEF Inv, Typed, ServersTyped, ListedAsks, Receive, session
<1>4. SessionsTyped' /\ PagesTyped' /\ PhasesFit' /\ OnlyOnce' /\ AnswersFit' /\ ToldFits' /\ DroppedIsOver'
  BY DEF Inv, Typed, Receive, session, page, SessionsTyped, PagesTyped, PhasesFit, Listening, OnlyOnce, AnswersFit,
      ToldFits, DroppedIsOver
<1> QED BY <1>1, <1>2, <1>3, <1>4 DEF Inv, Typed

LEMMA WithdrawKeeps ==
    ASSUME Inv, NEW s \in Sessions, Withdraw(s)
    PROVE  Inv'
<1>1. ServersTyped'
  <2>1. <<s, asks[s]>> \in Yields
    BY ListedAs DEF Inv, Typed, ServersTyped, Withdraw, Waiting
  <2> QED BY <2>1 DEF Inv, Typed, ServersTyped, Withdraw
<1>2. OnlyAsked'
  BY ListedAs DEF Inv, Withdraw, page, OnlyAsked, Asked
<1>3. OnlyOnce'
  BY DEF Inv, Withdraw, page, OnlyOnce
<1>4. ListedAsks'
  <2>1. \A z \in pending : z = Listed(z.challenge[1], z.challenge[2])
    BY DEF Inv, Typed, ServersTyped
  <2>2. \A z \in pending' : z \in pending /\ z.challenge # <<s, asks[s]>>
    BY <2>1 DEF Withdraw
  <2> QED BY <2>2 DEF Inv, Typed, ServersTyped, ListedAsks, Withdraw, session
<1>5. DroppedIsOver'
  BY DEF Inv, Withdraw, page, DroppedIsOver
<1>6. SessionsTyped' /\ PagesTyped' /\ PhasesFit' /\ AnswersFit' /\ ToldFits'
  BY DEF Inv, Typed, Withdraw, session, page, SessionsTyped, PagesTyped, PhasesFit, Listening, AnswersFit, ToldFits
<1> QED BY <1>1, <1>2, <1>3, <1>4, <1>5, <1>6 DEF Inv, Typed

LEMMA DirectListKeeps ==
    ASSUME Inv, DirectList
    PROVE  Inv'
<1>1. PagesTyped'
  <2>1. \A z \in pending : Card(Direct, z) \in Cards
    BY CardIs DEF Inv, Typed
  <2> QED BY <2>1 DEF Inv, Typed, PagesTyped, DirectList, Show
<1>2. OnlyAsked'
  <2>1. \A z \in pending : Card(Direct, z).challenge = z.challenge
    BY CardIs DEF Inv, Typed
  <2> QED BY <2>1 DEF Inv, Typed, PagesTyped, OnlyAsked, Asked, DirectList, Show, session, server
<1>3. SessionsTyped' /\ ServersTyped' /\ PhasesFit' /\ OnlyOnce' /\ ListedAsks' /\ AnswersFit' /\ ToldFits' /\ DroppedIsOver'
  BY DEF Inv, Typed, DirectList, session, server, SessionsTyped, ServersTyped, PhasesFit, Listening, OnlyOnce, ListedAsks,
      AnswersFit, ToldFits, DroppedIsOver
<1> QED BY <1>1, <1>2, <1>3 DEF Inv, Typed

LEMMA HubListKeeps ==
    ASSUME Inv, NEW s \in Sessions, HubList(s)
    PROVE  Inv'
<1>1. SessionsTyped'
  BY DEF Inv, Typed, HubList, SessionsTyped, SceneType
<1>2. PagesTyped'
  <2>1. \A z \in pending : Card(s, z) \in Cards
    BY CardIs DEF Inv, Typed
  <2> QED BY <2>1 DEF Inv, Typed, PagesTyped, HubList, Show
<1>3. PhasesFit'
  BY DEF Inv, HubList, server, PhasesFit, Listening, Bound
<1>4. OnlyAsked'
  <2>1. \A z \in pending : Card(s, z).challenge = z.challenge
    BY CardIs DEF Inv, Typed
  <2> QED BY <2>1 DEF Inv, Typed, PagesTyped, OnlyAsked, Asked, HubList, Show, server
<1>5. ServersTyped' /\ OnlyOnce' /\ ListedAsks' /\ AnswersFit' /\ ToldFits' /\ DroppedIsOver'
  BY DEF Inv, Typed, HubList, server, ServersTyped, OnlyOnce, ListedAsks, AnswersFit, ToldFits, DroppedIsOver
<1> QED BY <1>1, <1>2, <1>3, <1>4, <1>5 DEF Inv, Typed

LEMMA PostKeeps ==
    ASSUME Inv, NEW p \in Pages, NEW c \in cards, NEW v \in Verdict, NEW named \in BOOLEAN, Post(p, c, v, named)
    PROVE  Inv'
<1>1. PICK at \in {"hub", "session"} :
         flight' = flight \union {[page |-> p, card |-> c, verdict |-> v, named |-> named, awaited |-> TRUE, taken |-> Nothing, at |-> at]}
  BY DEF Post
<1>2. c \in Cards
  BY DEF Inv, Typed, PagesTyped, Post
<1>3. SessionsTyped'
  BY DEF Inv, Typed, Post, session, SessionsTyped, SceneType
<1>4. PagesTyped'
  <2>1. [page |-> p, card |-> c, verdict |-> v, named |-> named, awaited |-> TRUE, taken |-> Nothing, at |-> at] \in Flights
    BY <1>2 DEF Flights
  <2> QED BY <1>1, <2>1 DEF Inv, Typed, PagesTyped, Post
<1>5. OnlyAsked'
  BY DEF Inv, Post, server, OnlyAsked, Asked
<1>6. OnlyOnce'
  BY DEF Inv, Post, server, OnlyOnce
<1>7. ServersTyped' /\ PhasesFit' /\ ListedAsks' /\ AnswersFit' /\ ToldFits' /\ DroppedIsOver'
  BY DEF Inv, Typed, Post, session, server, ServersTyped, PhasesFit, Listening, ListedAsks, AnswersFit, ToldFits,
      DroppedIsOver
<1> QED BY <1>3, <1>4, <1>5, <1>6, <1>7 DEF Inv, Typed

LEMMA ForwardKeeps ==
    ASSUME Inv, NEW f \in flight, Forward(f)
    PROVE  Inv'
<1>1. UNCHANGED <<session, server, cards, left>> /\ told' = told /\ dropped' \subseteq dropped \union {f.card}
  BY DEF Forward, Tell
<1>2. PICK h : /\ h \in Flights /\ h.card = f.card /\ h.taken = f.taken /\ h.at = "session"
                /\ \A g \in flight' : g \in flight \/ g = h
  <2> DEFINE h == [f EXCEPT !.at = "session"]
  <2>1. h \in Flights /\ h.card = f.card /\ h.taken = f.taken /\ h.at = "session"
    BY FlightFacts DEF Flights
  <2>2. \A g \in flight' : g \in flight \/ g = h
    BY DEF Forward
  <2> HIDE DEF h
  <2> QED BY <2>1, <2>2
<1>3. dropped' = dropped \/ ~Known(f.card.key)
  BY DEF Forward, Tell
<1>4. PagesTyped'
  BY <1>1, <1>2, FlightFacts DEF Inv, Typed, PagesTyped
<1>5. OnlyAsked'
  <2>1. \A g \in flight' : Asked(g.card.challenge)
    BY <1>2, FlightFacts
  <2> QED BY <1>1, <2>1, FlightFacts DEF Inv, OnlyAsked, Asked, server
<1>6. OnlyOnce'
  <2>1. f.card.key # Direct /\ f.taken = Nothing
    BY FlightFacts DEF Forward
  <2> QED BY <1>1, <1>2, <2>1 DEF Inv, OnlyOnce, server
<1>7. ToldFits'
  BY <1>1 DEF Inv, Forward, server, ToldFits
<1>8. DroppedIsOver'
  <2>1. ASSUME dropped' # dropped, f.card.key \in {Direct, f.card.challenge[1]}, Listed(f.card.challenge[1], f.card.challenge[2]) \in pending
        PROVE  ~wait[f.card.challenge[1]]
    <3>1. f.card.key = f.card.challenge[1] /\ ~Known(f.card.challenge[1])
      BY <1>3, <2>1, FlightFacts DEF Forward
    <3>2. f.card.challenge[1] \in Sessions /\ phase[f.card.challenge[1]] # "serving"
      BY <2>1, <3>1, FlightFacts, ListedWaits DEF Inv, PhasesFit, Known
    <3> QED BY <2>1, <3>2, FlightFacts, ListedWaits
  <2> QED BY <1>1, <2>1 DEF Inv, DroppedIsOver, server
<1>9. SessionsTyped' /\ ServersTyped' /\ PhasesFit' /\ ListedAsks' /\ AnswersFit'
  BY DEF Inv, Typed, Forward, session, server, SessionsTyped, ServersTyped, PhasesFit, Listening, ListedAsks, AnswersFit
<1> QED BY <1>4, <1>5, <1>6, <1>7, <1>8, <1>9 DEF Inv, Typed

LEMMA TakeKeeps ==
    ASSUME Inv, NEW f \in flight, NEW s \in Sessions, Take(f, s)
    PROVE  Inv'
<1>1. PICK z \in Found(f, s) :
         /\ pending' = pending \ {z}
         /\ flight' = (flight \ {f}) \union {[f EXCEPT !.at = "channel", !.taken = z.challenge]}
  BY DEF Take
<1>2. UNCHANGED <<session, wait, asks, answer, got, cards, told, dropped, left>> /\ f.at = "session"
  BY DEF Take
<1>3. z \in pending /\ z.challenge \in Yields /\ z.challenge = f.card.challenge
  <2>1. z \in pending /\ z.id = f.card.challenge
    BY FlightFacts DEF Found
  <2> QED BY <2>1 DEF Inv, Typed, ServersTyped
<1>4. \A w \in pending' : w \in pending /\ w.challenge # z.challenge
  BY <1>1, <1>3, ListedIs DEF Inv, Typed, ServersTyped
<1>5. PICK h : /\ h \in Flights /\ h.card = f.card /\ h.at = "channel" /\ h.taken = z.challenge
                /\ \A g \in flight' : (g \in flight /\ g # f) \/ g = h
  <2> DEFINE h == [f EXCEPT !.at = "channel", !.taken = z.challenge]
  <2>1. h \in Flights /\ h.card = f.card /\ h.at = "channel" /\ h.taken = z.challenge
    BY <1>3, FlightFacts DEF Flights
  <2>2. \A g \in flight' : (g \in flight /\ g # f) \/ g = h
    BY <1>1
  <2> HIDE DEF h
  <2> QED BY <2>1, <2>2
<1>6. ServersTyped'
  BY <1>2, <1>4 DEF Inv, Typed, ServersTyped
<1>7. PagesTyped'
  BY <1>2, <1>5 DEF Inv, Typed, PagesTyped
<1>8. OnlyAsked'
  BY <1>2, <1>4, <1>5, FlightFacts DEF Inv, OnlyAsked, Asked
<1>9. OnlyOnce'
  <2>1. answer[z.challenge] = NoAnswer /\ \A g \in flight : g.at = "channel" => g.taken # z.challenge
    BY <1>3 DEF Inv, OnlyOnce
  <2>2. \A g, e \in flight' : g.at = "channel" /\ e.at = "channel" /\ g.taken = e.taken /\ g \in flight /\ e \in flight => g = e
    BY DEF Inv, OnlyOnce
  <2>3. \A g, e \in flight' : g.at = "channel" /\ e.at = "channel" /\ g.taken = e.taken => g = e
    BY <1>1, <1>5, <2>1, <2>2
  <2>4. \A g \in flight' : g.at = "channel" => answer[g.taken] = NoAnswer /\ \A w \in pending' : w.challenge # g.taken
    BY <1>4, <1>5, <2>1 DEF Inv, OnlyOnce
  <2> QED BY <1>2, <1>3, <1>4, <1>5, <2>3, <2>4 DEF Inv, OnlyOnce
<1>10. ListedAsks'
  BY <1>2, <1>4 DEF Inv, ListedAsks, session
<1>11. DroppedIsOver'
  BY <1>1, <1>2 DEF Inv, DroppedIsOver
<1>12. SessionsTyped' /\ PhasesFit' /\ AnswersFit' /\ ToldFits'
  BY DEF Inv, Typed, Take, session, SessionsTyped, PhasesFit, Listening, AnswersFit, ToldFits
<1> QED BY <1>6, <1>7, <1>8, <1>9, <1>10, <1>11, <1>12 DEF Inv, Typed

LEMMA TurnDownKeeps ==
    ASSUME Inv, NEW f \in flight, TurnDown(f)
    PROVE  Inv'
<1>1. UNCHANGED <<session, server, cards, left>> /\ told' = told /\ dropped' \subseteq dropped \union {f.card} /\ flight' = flight \ {f}
  BY DEF TurnDown, Tell
<1>2. \A s \in Listening : Found(f, s) # {} => \A y \in Found(f, s) : Same(f, y)
  <2> SUFFICES ASSUME NEW s \in Listening, NEW y \in Found(f, s) PROVE Same(f, y)
    OBVIOUS
  <2>1. y \in pending /\ y.id = f.card.challenge
    BY FlightFacts DEF Found
  <2>2. y.id = y.challenge
    BY <2>1 DEF Inv, Typed, ServersTyped
  <2> QED BY <2>1, <2>2 DEF Same
<1>3. dropped' = dropped \/ \E s \in Listening : Found(f, s) = {}
  <2>1. \A s \in Listening : Conflict(f, s) => Found(f, s) = {}
    BY <1>2 DEF Conflict
  <2>2. ASSUME \A s \in Listening : Found(f, s) # {} PROVE Tell(f, 502)
    BY <2>1, <2>2 DEF TurnDown
  <2>3. Tell(f, 502) => dropped' = dropped
    BY DEF Tell
  <2> QED BY <2>2, <2>3
<1>4. PagesTyped'
  BY <1>1, FlightFacts DEF Inv, Typed, PagesTyped
<1>5. OnlyAsked'
  BY <1>1, FlightFacts DEF Inv, OnlyAsked, Asked, server
<1>6. OnlyOnce'
  BY <1>1 DEF Inv, OnlyOnce, server
<1>7. ToldFits'
  BY <1>1 DEF Inv, ToldFits, server
<1>8. DroppedIsOver'
  <2> DEFINE y == f.card.challenge
  <2>1. ASSUME dropped' # dropped, Listed(y[1], y[2]) \in pending
        PROVE  ~wait[y[1]]
    <3>1. PICK s \in Listening : Found(f, s) = {}
      BY <1>3, <2>1
    <3>2. y \in Yields /\ f.card.id = y
      BY FlightFacts
    <3>3. y[1] \in Sessions /\ y[1] # s
      BY <2>1, <3>1, <3>2, ListedAs DEF Found
    <3>4. phase[y[1]] # "serving"
      BY <3>1, <3>3 DEF Inv, PhasesFit, Listening, Bound
    <3> QED BY <2>1, <3>2, <3>4, ListedWaits
  <2> QED BY <1>1, <2>1 DEF Inv, DroppedIsOver, server
<1>9. SessionsTyped' /\ ServersTyped' /\ PhasesFit' /\ ListedAsks' /\ AnswersFit'
  BY DEF Inv, Typed, TurnDown, session, server, SessionsTyped, ServersTyped, PhasesFit, Listening, ListedAsks, AnswersFit
<1> QED BY <1>4, <1>5, <1>6, <1>7, <1>8, <1>9 DEF Inv, Typed

LEMMA PutKeeps ==
    ASSUME Inv, NEW f \in flight, Put(f)
    PROVE  Inv'
<1>1. UNCHANGED <<session, wait, asks, pending, decided, got, cards, left>> /\ flight' = flight \ {f} /\ dropped' = dropped
  BY DEF Put, Tell
<1>2. f.taken \in Yields /\ f.taken = f.card.challenge /\ f.at = "channel" /\ answer[f.taken] = NoAnswer /\ f.page \in Pages /\ f.verdict \in Verdict
  BY FlightFacts DEF Put
<1>3. answer' = [answer EXCEPT ![f.taken] = [verdict |-> f.verdict, shown |-> f.taken, by |-> f.page]]
       /\ [verdict |-> f.verdict, shown |-> f.taken, by |-> f.page] \in Answers
  BY <1>2 DEF Put, Answers
<1>4. answer'[f.taken].verdict = f.verdict /\ answer'[f.taken].shown = f.taken /\ answer'[f.taken].by = f.page
  BY <1>2, <1>3 DEF Inv, Typed, ServersTyped
<1>5. \A y \in Yields : y # f.taken => answer'[y] = answer[y]
  BY <1>3 DEF Inv, Typed, ServersTyped
<1>6. \A t \in told' : t \in told \/ t = [page |-> f.page, verdict |-> f.verdict, taken |-> f.taken]
  BY DEF Put, Tell
<1>7. ServersTyped'
  BY <1>1, <1>3 DEF Inv, Typed, ServersTyped
<1>8. PagesTyped'
  BY <1>1, <1>2, <1>6 DEF Inv, Typed, PagesTyped
<1>9. OnlyAsked'
  BY <1>1, <1>2, <1>5, FlightFacts DEF Inv, OnlyAsked, Asked
<1>10. OnlyOnce'
  <2>1. \A g \in flight' : g \in flight /\ (g.at = "channel" => g.taken \in Yields /\ g.taken # f.taken)
    BY <1>1, <1>2, FlightFacts DEF Inv, OnlyOnce
  <2>2. \A z \in pending : z.challenge \in Yields /\ z.challenge # f.taken
    BY <1>2 DEF Inv, OnlyOnce, Typed, ServersTyped
  <2> QED BY <1>1, <1>5, <2>1, <2>2 DEF Inv, OnlyOnce
<1>11. AnswersFit'
  BY <1>2, <1>4, <1>5 DEF Inv, AnswersFit
<1>12. ToldFits'
  <2>1. \A t \in told : t.taken \in Yields /\ t.taken # f.taken
    BY <1>2, ToldIsAnswered DEF Inv, Typed
  <2> QED BY <1>4, <1>5, <1>6, <2>1 DEF Inv, ToldFits
<1>13. DroppedIsOver'
  BY <1>1 DEF Inv, Put, DroppedIsOver
<1>14. SessionsTyped' /\ PhasesFit' /\ ListedAsks'
  BY DEF Inv, Typed, Put, session, SessionsTyped, PhasesFit, Listening, ListedAsks
<1> QED BY <1>7, <1>8, <1>9, <1>10, <1>11, <1>12, <1>13, <1>14 DEF Inv, Typed

LEMMA GiveUpKeeps ==
    ASSUME Inv, NEW f \in flight, GiveUp(f)
    PROVE  Inv'
<1>1. UNCHANGED <<session, server, cards, told, dropped>> /\ flight' = (flight \ {f}) \union {[f EXCEPT !.awaited = FALSE]}
  BY DEF GiveUp
<1>2. PICK h : /\ h \in Flights /\ h.card = f.card /\ h.at = f.at /\ h.taken = f.taken
                /\ \A g \in flight' : (g \in flight /\ g # f) \/ g = h
  <2> DEFINE h == [f EXCEPT !.awaited = FALSE]
  <2>1. h \in Flights /\ h.card = f.card /\ h.at = f.at /\ h.taken = f.taken
    BY FlightFacts DEF Flights
  <2>2. \A g \in flight' : (g \in flight /\ g # f) \/ g = h
    BY <1>1
  <2> HIDE DEF h
  <2> QED BY <2>1, <2>2
<1>3. SessionsTyped'
  BY DEF Inv, Typed, GiveUp, session, SessionsTyped, SceneType
<1>4. PagesTyped'
  BY <1>1, <1>2 DEF Inv, Typed, PagesTyped
<1>5. OnlyAsked'
  BY <1>1, <1>2, FlightFacts DEF Inv, OnlyAsked, Asked, server
<1>6. OnlyOnce'
  <2>1. \A g, e \in flight' : g.at = "channel" /\ e.at = "channel" /\ g.taken = e.taken => g = e
    BY <1>2 DEF Inv, OnlyOnce
  <2>2. \A g \in flight' : \E e \in flight : g.at = e.at /\ g.card = e.card /\ g.taken = e.taken
    BY <1>2
  <2> QED BY <1>1, <2>1, <2>2 DEF Inv, OnlyOnce, server
<1>7. ServersTyped' /\ PhasesFit' /\ ListedAsks' /\ AnswersFit' /\ ToldFits' /\ DroppedIsOver'
  BY DEF Inv, Typed, GiveUp, session, server, ServersTyped, PhasesFit, Listening, ListedAsks, AnswersFit, ToldFits,
      DroppedIsOver
<1> QED BY <1>3, <1>4, <1>5, <1>6, <1>7 DEF Inv, Typed

LEMMA ReconcileKeeps ==
    ASSUME Inv, Reconcile
    PROVE  Inv'
<1>1. SessionsTyped'
  BY DEF Inv, Typed, Reconcile, SessionsTyped
<1>2. PhasesFit'
  BY DEF Inv, Reconcile, server, PhasesFit, Listening
<1>3. ServersTyped' /\ PagesTyped' /\ OnlyAsked' /\ OnlyOnce' /\ ListedAsks' /\ AnswersFit' /\ ToldFits' /\ DroppedIsOver'
  BY DEF Inv, Typed, Reconcile, server, page, ServersTyped, PagesTyped, OnlyAsked, Asked, OnlyOnce, ListedAsks, AnswersFit,
      ToldFits, DroppedIsOver
<1> QED BY <1>1, <1>2, <1>3 DEF Inv, Typed

-----------------------------------------------------------------------------
(* The specification. *)

LEMMA InitKeeps == Init => Inv
<1> SUFFICES ASSUME Init PROVE Inv
  OBVIOUS
<1>1. Typed
  <2>1. NoAnswer \in Answers
    BY DEF NoAnswer, Answers
  <2>2. left \in SceneType
    BY DeskAssumption DEF Init
  <2> QED BY <2>1, <2>2, DeskAssumption DEF Init, Typed, SessionsTyped, ServersTyped, PagesTyped, Phases
<1>2. PhasesFit
  BY DEF Init, PhasesFit, Listening, Bound
<1>3. OnlyAsked /\ OnlyOnce /\ ListedAsks /\ AnswersFit /\ ToldFits /\ DroppedIsOver
  BY DEF Init, OnlyAsked, OnlyOnce, ListedAsks, AnswersFit, ToldFits, DroppedIsOver
<1> QED BY <1>1, <1>2, <1>3 DEF Inv

LEMMA NextKeeps == Inv /\ [Next]_vars => Inv'
<1> SUFFICES ASSUME Inv, [Next]_vars PROVE Inv'
  OBVIOUS
<1>0. left.sessions \subseteq Sessions /\ left.pages \subseteq Pages
  BY DEF Inv, Typed, SessionsTyped, SceneType
<1>1. CASE UNCHANGED vars
  BY <1>1 DEF vars, Inv, Typed, SessionsTyped, ServersTyped, PagesTyped, PhasesFit, Listening, OnlyAsked, Asked, OnlyOnce, ListedAsks,
              AnswersFit, ToldFits, DroppedIsOver
<1>2. ASSUME NEW s \in Sessions,
             \/ StartServer(s) \/ RegisterLock(s) \/ RegisterFile(s) \/ Release(s) \/ Cancel(s) \/ Exit(s) \/ Kill(s)
             \/ PendSigned(s) \/ WaitEnds(s) \/ Own(s)
      PROVE  Inv'
  BY <1>2, StartServerKeeps, RegisterLockKeeps, RegisterFileKeeps, ReleaseKeeps, CancelKeeps, ExitKeeps, KillKeeps, PendSignedKeeps,
     WaitEndsKeeps, RejectAllKeeps, ReceiveKeeps, WithdrawKeeps, ShutdownKeeps DEF Own
<1>3. ASSUME DirectList \/ (\E s \in Sessions : HubList(s)) \/ Reconcile PROVE Inv'
  BY <1>3, DirectListKeeps, HubListKeeps, ReconcileKeeps
<1>4. ASSUME NEW p \in Pages, NEW c \in cards, NEW v \in Verdict, NEW named \in BOOLEAN, Post(p, c, v, named) PROVE Inv'
  BY <1>4, PostKeeps
<1>5. ASSUME NEW f \in flight, Handle(f) \/ GiveUp(f) PROVE Inv'
  BY <1>5, ForwardKeeps, TakeKeeps, TurnDownKeeps, PutKeeps, GiveUpKeeps DEF Handle
<1> QED BY <1>0, <1>1, <1>2, <1>3, <1>4, <1>5 DEF Next

\* The pages, the servers' tables and the channels fit each other in every state.
THEOREM DeskIsInvariant == Spec => []Inv
<1> QED BY InitKeeps, NextKeeps, PTL DEF Spec

\* A run only ever gets an answer a person gave to the very request it asked about (handleDecision compares the challenge and takes the
\* proposal from the list under one lock), for every number of sessions, pages and proposals.
THEOREM AnswersItsRequestHolds == Spec => []AnswersItsRequest
<1>1. Inv => AnswersItsRequest
  <2> SUFFICES ASSUME Inv, NEW y \in Yields, answer[y].by \in Pages PROVE answer[y].shown = y
    BY DEF AnswersItsRequest
  <2>1. NoAnswer.by = "nobody"
    BY DEF NoAnswer
  <2> QED BY <2>1, DeskAssumption DEF Inv, AnswersFit
<1> QED BY <1>1, DeskIsInvariant, PTL

\* A session that serves keeps its registration and its lock (Register, and what hub.go removes), whatever hubs start, time out or fail.
THEOREM ServingIsListedHolds == Spec => []ServingIsListed
<1>1. Inv => ServingIsListed
  BY DEF Inv, PhasesFit, ServingIsListed
<1> QED BY <1>1, DeskIsInvariant, PTL

\* A page is told 200 only if its decision is the one the run gets, and 404 or 409 only when nobody is asked any more
\* (handleDecision, Hub.yield), for every number of pages, retries, kills and timeouts.
THEOREM PagesAreToldTrueHolds == Spec => []PagesAreToldTrue
<1>1. Inv => PagesAreToldTrue
  <2> SUFFICES ASSUME Inv PROVE OneDecisionWins
    BY DEF Inv, PagesAreToldTrue
  <2>1. \A t, u \in told : u.taken = t.taken => u = t
    <3> SUFFICES ASSUME NEW t \in told, NEW u \in told, u.taken = t.taken PROVE u = t
      OBVIOUS
    <3>1. u.page = t.page /\ u.verdict = t.verdict
      BY DEF Inv, ToldFits
    <3> QED BY <3>1 DEF Inv, Typed, PagesTyped
  <2> QED BY <2>1 DEF Inv, ToldFits, OneDecisionWins
<1> QED BY <1>1, DeskIsInvariant, PTL
=============================================================================
