------------------------------ MODULE RpiGraph ------------------------------
(***************************************************************************)
(* The opponent graph of application/_rpi.py: get_results of the service   *)
(* takes the played matches of a flight's schedule, build_graph folds them,*)
(* one at a time, into each team's record and list of games, and           *)
(* _opponent_wp_excluding takes a game back out of an opponent's record.   *)
(* A state is the graph after some prefix of the schedule, so what holds   *)
(* in every state holds for every schedule.                                *)
(*                                                                         *)
(* Teams are the names in the feed.  A feed without names yields "", so a  *)
(* team may be listed against itself; build_graph does not exclude it.     *)
(***************************************************************************)
EXTENDS Integers, Sequences, FiniteSets, Dict

CONSTANTS Teams,        \* team names
          None,         \* a score that is missing, or is no number
          ScoreLines,   \* the <<home, away>> scores that the feed may show
          MaxMatches    \* bound: the length of the schedule

ASSUME GraphAssumption == /\ None \notin Int
                          /\ ScoreLines \subseteq (Int \union {None}) \X (Int \union {None})
                          /\ MaxMatches \in Nat

VARIABLES schedule,  \* the matches read so far, played or not
          record,    \* team -> wins, losses and ties
          games      \* team -> its games, each an opponent and an outcome

graphvars == <<schedule, record, games>>

Outcomes == {"W", "L", "T"}

Match == {[home |-> h, away |-> a, homeScore |-> s[1], awayScore |-> s[2]] :
            h \in Teams, a \in Teams, s \in ScoreLines}

Game == [opponent : Teams, outcome : Outcomes]

Record == [Outcomes -> Nat]

GraphInit == schedule = <<>> /\ record = EmptyDict /\ games = EmptyDict

-----------------------------------------------------------------------------
IsPlayed(m) == m.homeScore # None /\ m.awayScore # None

\* _outcomes, for the side that scored `own' against `other'.
Outcome(own, other) == CASE own > other -> "W"
                         [] own < other -> "L"
                         [] own = other -> "T"

Mirror == [o \in Outcomes |-> CASE o = "W" -> "L" [] o = "L" -> "W" [] o = "T" -> "T"]

\* The defaultdicts: a missing team has an empty record and no games.
RecordOf(rec, t) == IF t \in DOMAIN rec THEN rec[t] ELSE [o \in Outcomes |-> 0]
GamesOf(t) == IF t \in DOMAIN games THEN games[t] ELSE <<>>

\* Mutants (suffix _M): a definition as a plausible bug of this code would have it.
Count_M(rec, t, o) == Put(rec, t, [RecordOf(rec, t) EXCEPT ![o] = 1])
Count(rec, t, o) == Put(rec, t, [RecordOf(rec, t) EXCEPT ![o] = @ + 1])

AwayOutcome_M(m) == Outcome(m.homeScore, m.awayScore)
HomeOutcome(m) == Outcome(m.homeScore, m.awayScore)
AwayOutcome(m) == Outcome(m.awayScore, m.homeScore)

\* The two appends of a match; a team listed against itself gets both.
Games_M(m) == Put(games, m.home, Append(GamesOf(m.home),
                                        [opponent |-> m.away, outcome |-> HomeOutcome(m)]))
Games(m) ==
  LET h == [opponent |-> m.away, outcome |-> HomeOutcome(m)]
      a == [opponent |-> m.home, outcome |-> AwayOutcome(m)]
  IN  IF m.home = m.away
      THEN Put(games, m.home, Append(Append(GamesOf(m.home), h), a))
      ELSE Put(Put(games, m.home, Append(GamesOf(m.home), h)), m.away, Append(GamesOf(m.away), a))

\* One pass of the loop of build_graph.
AddMatch(m) == /\ Len(schedule) < MaxMatches
               /\ IsPlayed(m)
               /\ schedule' = Append(schedule, m)
               /\ record' = Count(Count(record, m.home, HomeOutcome(m)), m.away, AwayOutcome(m))
               /\ games' = Games(m)

\* get_results leaves out a match without both scores.
SkipMatch(m) == /\ Len(schedule) < MaxMatches
                /\ ~IsPlayed(m)
                /\ schedule' = Append(schedule, m)
                /\ UNCHANGED <<record, games>>

GraphNext == \E m \in Match : AddMatch(m) \/ SkipMatch(m)

GraphSpec == GraphInit /\ [][GraphNext]_graphvars

\* _opponent_wp_excluding: the opponent's record without one game in which the
\* rated team had the given outcome.
Excluding_M1(opponent, outcome) == record[opponent]
Excluding_M2(opponent, outcome) == [record[opponent] EXCEPT ![outcome] = @ - 1]
Excluding(opponent, outcome) == [record[opponent] EXCEPT ![Mirror[outcome]] = @ - 1]

-----------------------------------------------------------------------------
(* Every variable keeps its type, and a team has games iff it has a record.*)
GraphTypeOK == /\ schedule \in Seq(Match)
               /\ DOMAIN record \subseteq Teams
               /\ \A t \in DOMAIN record : record[t] \in Record
               /\ DOMAIN games = DOMAIN record
               /\ \A t \in DOMAIN games : games[t] \in Seq(Game)

(* A team's record and its list of games say the same: the division by the *)
(* games of a record and the mean over the list of games are over the same *)
(* number of games.                                                        *)
RecordCountsGames ==
  \A t \in DOMAIN record :
    /\ Len(games[t]) = record[t]["W"] + record[t]["L"] + record[t]["T"]
    /\ Len(games[t]) > 0

(* Taking a game back out never takes more than there is: every opponent   *)
(* in a list of games is a team with a record, in which the game that is   *)
(* excluded was counted, so no winning percentage leaves [0, 1] and no     *)
(* lookup in the defaultdict adds a team.                                  *)
ExclusionNeverNegative ==
  \A t \in DOMAIN games : \A i \in 1 .. Len(games[t]) :
    LET g == games[t][i]
    IN  /\ g.opponent \in DOMAIN record
        /\ \A o \in Outcomes : Excluding(g.opponent, g.outcome)[o] >= 0

(* The games of two teams against each other are the same games seen from  *)
(* both sides.                                                             *)
Meetings(t, u, o) ==
  Cardinality({i \in 1 .. Len(GamesOf(t)) : GamesOf(t)[i] = [opponent |-> u, outcome |-> o]})

GamesAreMirrored ==
  \A t, u \in Teams, o \in Outcomes : Meetings(t, u, o) = Meetings(u, t, Mirror[o])

(* The record a team has in the schedule alone, the matches of a given set *)
(* left out: a match counts once it has both scores.                       *)
Results == {i \in 1 .. Len(schedule) : {schedule[i].homeScore, schedule[i].awayScore} \subseteq Int}

RecordWithout(t, left) ==
  [o \in Outcomes |->
     LET rest == Results \ left
     IN  Cardinality({i \in rest : schedule[i].home = t /\ HomeOutcome(schedule[i]) = o})
           + Cardinality({i \in rest : schedule[i].away = t /\ AwayOutcome(schedule[i]) = o})]

Between(t, u) == {i \in Results : {schedule[i].home, schedule[i].away} = {t, u}}

(* The record that a rated team's opponent is left with is the one it would*)
(* have had without their match, if they met once.                         *)
ExclusionIsExact ==
  \A t \in DOMAIN games : \A i \in 1 .. Len(games[t]) :
    LET g == games[t][i]
    IN  g.opponent # t /\ Cardinality(Between(t, g.opponent)) = 1 =>
          Excluding(g.opponent, g.outcome) = RecordWithout(g.opponent, Between(t, g.opponent))

(* The same without the condition, as the docstring of _rpi.py has it: the *)
(* opponent's winning percentage is taken "with the game(s) against the    *)
(* rated team removed", however often the two have met.                    *)
ExcludesEveryMeeting ==
  \A t \in DOMAIN games : \A i \in 1 .. Len(games[t]) :
    LET g == games[t][i]
    IN  g.opponent # t =>
          Excluding(g.opponent, g.outcome) = RecordWithout(g.opponent, Between(t, g.opponent))
=============================================================================
