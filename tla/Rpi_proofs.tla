----------------------------- MODULE Rpi_proofs -----------------------------
(***************************************************************************)
(* Proofs about the ratings.  Of the graph that they are computed from,    *)
(* for every set of teams and every schedule: records and lists of games   *)
(* agree, taking a game back out of an opponent's record never takes more  *)
(* than there is and is exact for teams that met once, and the games of    *)
(* two teams are the same from both sides.  Of the table: where no teams   *)
(* meet twice, it is the published formula, and its ranks follow it.  Of   *)
(* the memo of the service, for any calls, tables, lifetimes and cap: it   *)
(* never outgrows its cap, hands out no table older than promised, keeps   *)
(* its order in step with its entries, and holds the tables used last.     *)
(***************************************************************************)
EXTENDS MCRpiService, RpiTable, SequenceTheorems, FiniteSetTheorems, TLAPS

(* Each game in a list was counted, mirrored, in its opponent's record.    *)
Counted == \A t \in DOMAIN games : \A i \in 1 .. Len(games[t]) :
  /\ games[t][i].opponent \in DOMAIN record
  /\ record[games[t][i].opponent][Mirror[games[t][i].outcome]] > 0

(* The inductive invariant.                                                *)
GraphIInv == GraphTypeOK /\ RecordCountsGames /\ Counted

(* Counting a game adds one to the record and takes nothing from it.       *)
LEMMA CountOne ==
  ASSUME NEW r \in Record, NEW o \in Outcomes
  PROVE LET s == [r EXCEPT ![o] = @ + 1]
        IN  /\ s \in Record
            /\ s[o] > 0
            /\ \A p \in Outcomes : s[p] >= r[p]
            /\ Played(s) = Played(r) + 1
  BY DEF Record, Outcomes, Played

(* The outcomes of the two sides of a match mirror each other.             *)
LEMMA OutcomesMirror ==
  ASSUME NEW m \in Match, IsPlayed(m)
  PROVE /\ HomeOutcome(m) \in Outcomes /\ AwayOutcome(m) \in Outcomes
        /\ Mirror[HomeOutcome(m)] = AwayOutcome(m)
        /\ Mirror[AwayOutcome(m)] = HomeOutcome(m)
<1>1. m.homeScore \in Int /\ m.awayScore \in Int
  BY GraphAssumption DEF Match, IsPlayed
<1> QED BY <1>1 DEF HomeOutcome, AwayOutcome, Outcome, Outcomes, Mirror

(* A record starts empty, and lists no games.                              *)
LEMMA RecordOfType ==
  ASSUME GraphTypeOK, RecordCountsGames, NEW t \in Teams
  PROVE /\ RecordOf(record, t) \in Record
        /\ GamesOf(t) \in Seq(Game)
        /\ Len(GamesOf(t)) = Played(RecordOf(record, t))
  BY DEF GraphTypeOK, RecordCountsGames, RecordOf, GamesOf, Record, Outcomes, Played

(* The first state.                                                        *)
LEMMA InitGraph == GraphInit => GraphIInv
  BY DEF GraphInit, GraphIInv, GraphTypeOK, RecordCountsGames, Counted, EmptyDict

(* What a match does to the records.                                       *)
LEMMA RecordAfter ==
  ASSUME GraphIInv, NEW m \in Match, AddMatch(m)
  PROVE /\ DOMAIN record' = DOMAIN record \union {m.home, m.away}
        /\ \A t \in DOMAIN record' : record'[t] \in Record
        /\ \A t \in DOMAIN record : \A o \in Outcomes : record'[t][o] >= record[t][o]
        /\ record'[m.home][HomeOutcome(m)] > 0
        /\ record'[m.away][AwayOutcome(m)] > 0
        /\ \A t \in DOMAIN record' \ {m.home, m.away} : record'[t] = record[t]
        /\ m.home # m.away =>
             /\ Played(record'[m.home]) = Played(RecordOf(record, m.home)) + 1
             /\ Played(record'[m.away]) = Played(RecordOf(record, m.away)) + 1
        /\ m.home = m.away => Played(record'[m.home]) = Played(RecordOf(record, m.home)) + 2
<1> DEFINE h == m.home
           a == m.away
           r1 == Count(record, h, HomeOutcome(m))
           rh == [RecordOf(record, h) EXCEPT ![HomeOutcome(m)] = @ + 1]
           ra == [RecordOf(r1, a) EXCEPT ![AwayOutcome(m)] = @ + 1]
<1>1. h \in Teams /\ a \in Teams /\ HomeOutcome(m) \in Outcomes /\ AwayOutcome(m) \in Outcomes
  BY OutcomesMirror DEF Match, AddMatch
<1>2. GraphTypeOK /\ RecordCountsGames
  BY DEF GraphIInv
<1>3. /\ DOMAIN r1 = DOMAIN record \union {h}
      /\ r1[h] = rh
      /\ \A t \in DOMAIN record \ {h} : r1[t] = record[t]
  BY DEF Count, Put
<1>4. /\ rh \in Record /\ rh[HomeOutcome(m)] > 0
      /\ \A p \in Outcomes : rh[p] >= RecordOf(record, h)[p]
      /\ Played(rh) = Played(RecordOf(record, h)) + 1
  BY <1>1, <1>2, RecordOfType, CountOne
<1>5. record' = Put(r1, a, ra)
  BY DEF AddMatch, Count
<1>6. /\ DOMAIN record' = DOMAIN r1 \union {a}
      /\ record'[a] = ra
      /\ \A t \in DOMAIN r1 \ {a} : record'[t] = r1[t]
  BY <1>5 DEF Put
<1>7. RecordOf(r1, a) = IF h = a THEN rh ELSE RecordOf(record, a)
  BY <1>3 DEF RecordOf
<1>8. RecordOf(r1, a) \in Record
  BY <1>1, <1>2, <1>4, <1>7, RecordOfType
<1>9. /\ ra \in Record /\ ra[AwayOutcome(m)] > 0
      /\ \A p \in Outcomes : ra[p] >= RecordOf(r1, a)[p]
      /\ Played(ra) = Played(RecordOf(r1, a)) + 1
  BY <1>1, <1>8, CountOne
<1> HIDE DEF r1, rh, ra
<1>10. \A t \in DOMAIN record' : record'[t] \in Record
  BY <1>2, <1>3, <1>4, <1>6, <1>9 DEF GraphTypeOK
<1>11. ASSUME NEW t \in DOMAIN record, NEW o \in Outcomes PROVE record'[t][o] >= record[t][o]
  <2>1. record[t] \in Record /\ record[t][o] \in Nat /\ RecordOf(record, t) = record[t]
    BY <1>2 DEF GraphTypeOK, Record, RecordOf
  <2>2. rh[o] \in Nat /\ ra[o] \in Nat
    BY <1>4, <1>9 DEF Record
  <2>3. CASE t # h /\ t # a
    BY <1>3, <1>6, <2>1, <2>3
  <2>4. CASE t = h /\ t # a
    BY <1>3, <1>4, <1>6, <2>1, <2>4
  <2>5. CASE t # h /\ t = a
    BY <1>6, <1>7, <1>9, <2>1, <2>5
  <2>6. CASE t = h /\ t = a
    BY <1>4, <1>6, <1>7, <1>9, <2>1, <2>2, <2>6
  <2> QED BY <2>3, <2>4, <2>5, <2>6
<1>12. record'[h][HomeOutcome(m)] > 0
  <2>1. rh[HomeOutcome(m)] \in Nat /\ ra[HomeOutcome(m)] \in Nat
    BY <1>1, <1>4, <1>9 DEF Record
  <2> QED BY <1>1, <1>3, <1>4, <1>6, <1>7, <1>9, <2>1
<1>13. \A t \in DOMAIN record' \ {h, a} : record'[t] = record[t]
  BY <1>3, <1>6
<1>14. h # a => /\ Played(record'[h]) = Played(RecordOf(record, h)) + 1
                /\ Played(record'[a]) = Played(RecordOf(record, a)) + 1
  BY <1>3, <1>4, <1>6, <1>7, <1>9
<1>15. h = a => Played(record'[h]) = Played(RecordOf(record, h)) + 2
  <2>1. Played(RecordOf(record, h)) \in Int
    BY <1>1, <1>2, RecordOfType DEF Played, Record, Outcomes
  <2> QED BY <1>4, <1>6, <1>7, <1>9, <2>1
<1> QED BY <1>3, <1>6, <1>9, <1>10, <1>11, <1>12, <1>13, <1>14, <1>15

(* Appending a game keeps the games that were listed, at their places.     *)
LEMMA AppendGame ==
  ASSUME NEW s \in Seq(Game), NEW g \in Game
  PROVE /\ Append(s, g) \in Seq(Game)
        /\ Len(Append(s, g)) = Len(s) + 1
        /\ \A i \in 1 .. Len(Append(s, g)) :
             \/ i \in 1 .. Len(s) /\ Append(s, g)[i] = s[i]
             \/ Append(s, g)[i] = g
  OBVIOUS

(* What a match does to the lists of games: each listed game was listed    *)
(* before, or is this match seen from one of its sides.                    *)
LEMMA GamesAfter ==
  ASSUME GraphIInv, NEW m \in Match, AddMatch(m)
  PROVE LET hg == [opponent |-> m.away, outcome |-> HomeOutcome(m)]
            ag == [opponent |-> m.home, outcome |-> AwayOutcome(m)]
        IN /\ DOMAIN games' = DOMAIN games \union {m.home, m.away}
           /\ \A t \in DOMAIN games' : games'[t] \in Seq(Game)
           /\ \A t \in DOMAIN games' : \A i \in 1 .. Len(games'[t]) :
                \/ t \in DOMAIN games /\ i \in 1 .. Len(games[t]) /\ games'[t][i] = games[t][i]
                \/ t = m.home /\ games'[t][i] = hg
                \/ t = m.away /\ games'[t][i] = ag
           /\ \A t \in DOMAIN games' \ {m.home, m.away} : games'[t] = games[t]
           /\ m.home # m.away =>
                /\ Len(games'[m.home]) = Len(GamesOf(m.home)) + 1
                /\ Len(games'[m.away]) = Len(GamesOf(m.away)) + 1
           /\ m.home = m.away => Len(games'[m.home]) = Len(GamesOf(m.home)) + 2
<1> DEFINE h == m.home
           a == m.away
           hg == [opponent |-> a, outcome |-> HomeOutcome(m)]
           ag == [opponent |-> h, outcome |-> AwayOutcome(m)]
           sh == Append(GamesOf(h), hg)
           sa == Append(GamesOf(a), ag)
           sb == Append(sh, ag)
<1>1. h \in Teams /\ a \in Teams /\ hg \in Game /\ ag \in Game
  BY OutcomesMirror DEF Match, Game, AddMatch
<1>2. GraphTypeOK /\ RecordCountsGames
  BY DEF GraphIInv
<1>3. GamesOf(h) \in Seq(Game) /\ GamesOf(a) \in Seq(Game)
  BY <1>1, <1>2, RecordOfType
<1>4. \A t \in Teams : \A i \in 1 .. Len(GamesOf(t)) :
        t \in DOMAIN games /\ i \in 1 .. Len(games[t]) /\ GamesOf(t)[i] = games[t][i]
  BY DEF GamesOf
<1>5. /\ sh \in Seq(Game) /\ Len(sh) = Len(GamesOf(h)) + 1
      /\ \A i \in 1 .. Len(sh) : (i \in 1 .. Len(GamesOf(h)) /\ sh[i] = GamesOf(h)[i]) \/ sh[i] = hg
  BY <1>1, <1>3, AppendGame
<1>6. /\ sa \in Seq(Game) /\ Len(sa) = Len(GamesOf(a)) + 1
      /\ \A i \in 1 .. Len(sa) : (i \in 1 .. Len(GamesOf(a)) /\ sa[i] = GamesOf(a)[i]) \/ sa[i] = ag
  BY <1>1, <1>3, AppendGame
<1>7. /\ sb \in Seq(Game) /\ Len(sb) = Len(sh) + 1
      /\ \A i \in 1 .. Len(sb) : (i \in 1 .. Len(sh) /\ sb[i] = sh[i]) \/ sb[i] = ag
  BY <1>1, <1>5, AppendGame
<1>8. \A t \in DOMAIN games : games[t] \in Seq(Game)
  BY <1>2 DEF GraphTypeOK
<1>9. games' = IF h = a THEN Put(games, h, sb) ELSE Put(Put(games, h, sh), a, sa)
  BY DEF AddMatch, Games
<1> HIDE DEF hg, ag, sh, sa, sb
<1>10. CASE h = a
  <2>1. /\ DOMAIN games' = DOMAIN games \union {h}
        /\ games'[h] = sb
        /\ \A t \in DOMAIN games \ {h} : games'[t] = games[t]
    BY <1>9, <1>10 DEF Put
  <2>2. \A t \in DOMAIN games' : games'[t] \in Seq(Game)
    BY <1>7, <1>8, <2>1
  <2>3. Len(games'[h]) = Len(GamesOf(h)) + 2
    BY <1>3, <1>5, <1>7, <2>1
  <2>4. ASSUME NEW t \in DOMAIN games', NEW i \in 1 .. Len(games'[t])
        PROVE \/ t \in DOMAIN games /\ i \in 1 .. Len(games[t]) /\ games'[t][i] = games[t][i]
              \/ t = h /\ games'[t][i] = hg
              \/ t = a /\ games'[t][i] = ag
    <3>1. CASE t = h
      BY <1>1, <1>4, <1>5, <1>7, <1>10, <2>1, <3>1
    <3>2. CASE t # h
      BY <2>1, <3>2
    <3> QED BY <3>1, <3>2
  <2> QED BY <1>10, <2>1, <2>2, <2>3, <2>4 DEF hg, ag
<1>11. CASE h # a
  <2>1. /\ DOMAIN games' = DOMAIN games \union {h, a}
        /\ games'[h] = sh
        /\ games'[a] = sa
        /\ \A t \in DOMAIN games \ {h, a} : games'[t] = games[t]
    BY <1>9, <1>11 DEF Put
  <2>2. \A t \in DOMAIN games' : games'[t] \in Seq(Game)
    BY <1>5, <1>6, <1>8, <2>1
  <2>4. ASSUME NEW t \in DOMAIN games', NEW i \in 1 .. Len(games'[t])
        PROVE \/ t \in DOMAIN games /\ i \in 1 .. Len(games[t]) /\ games'[t][i] = games[t][i]
              \/ t = h /\ games'[t][i] = hg
              \/ t = a /\ games'[t][i] = ag
    <3>1. CASE t = h
      BY <1>1, <1>4, <1>5, <2>1, <3>1
    <3>2. CASE t = a
      BY <1>1, <1>4, <1>6, <2>1, <3>2
    <3>3. CASE t # h /\ t # a
      BY <2>1, <3>3
    <3> QED BY <3>1, <3>2, <3>3
  <2> QED BY <1>5, <1>6, <1>11, <2>1, <2>2, <2>4 DEF hg, ag
<1> QED BY <1>10, <1>11

(* Every match keeps the inductive invariant.                              *)
LEMMA NextGraph == GraphIInv /\ [GraphNext]_graphvars => GraphIInv'
<1>1. ASSUME GraphIInv, UNCHANGED graphvars PROVE GraphIInv'
  BY <1>1 DEF GraphIInv, graphvars, GraphTypeOK, RecordCountsGames, Counted
<1>2. ASSUME GraphIInv, NEW m \in Match, AddMatch(m) PROVE GraphIInv'
  <2> DEFINE h == m.home
             a == m.away
             hg == [opponent |-> a, outcome |-> HomeOutcome(m)]
             ag == [opponent |-> h, outcome |-> AwayOutcome(m)]
  <2>1. GraphTypeOK /\ RecordCountsGames /\ Counted /\ h \in Teams /\ a \in Teams
    BY <1>2 DEF GraphIInv, Match
  <2>2. /\ DOMAIN record' = DOMAIN record \union {h, a}
        /\ \A t \in DOMAIN record' : record'[t] \in Record
        /\ record'[h][HomeOutcome(m)] > 0 /\ record'[a][AwayOutcome(m)] > 0
        /\ h # a => /\ Played(record'[h]) = Played(RecordOf(record, h)) + 1
                    /\ Played(record'[a]) = Played(RecordOf(record, a)) + 1
        /\ h = a => Played(record'[h]) = Played(RecordOf(record, h)) + 2
    BY <1>2, RecordAfter
  <2>3. /\ DOMAIN games' = DOMAIN games \union {h, a}
        /\ \A t \in DOMAIN games' : games'[t] \in Seq(Game)
        /\ h # a => /\ Len(games'[h]) = Len(GamesOf(h)) + 1
                    /\ Len(games'[a]) = Len(GamesOf(a)) + 1
        /\ h = a => Len(games'[h]) = Len(GamesOf(h)) + 2
    BY <1>2, GamesAfter
  <2>4. Mirror[HomeOutcome(m)] = AwayOutcome(m) /\ Mirror[AwayOutcome(m)] = HomeOutcome(m)
    BY <1>2, OutcomesMirror DEF AddMatch
  <2>5. GraphTypeOK'
    <3>1. schedule' \in Seq(Match)
      BY <1>2, <2>1 DEF GraphTypeOK, AddMatch
    <3> QED BY <2>1, <2>2, <2>3, <3>1 DEF GraphTypeOK
  <2>6. RecordCountsGames'
    <3> SUFFICES ASSUME NEW t \in DOMAIN record'
                 PROVE Len(games'[t]) = Played(record'[t]) /\ Len(games'[t]) > 0
      BY DEF RecordCountsGames, Played
    <3>1. CASE t \in {h, a}
      <4>1. /\ Len(GamesOf(t)) = Played(RecordOf(record, t)) /\ GamesOf(t) \in Seq(Game)
        BY <2>1, <3>1, RecordOfType
      <4>2. Len(GamesOf(t)) \in Nat
        BY <4>1
      <4>3. CASE h # a
        BY <2>2, <2>3, <3>1, <4>1, <4>2, <4>3
      <4>4. CASE h = a
        BY <2>2, <2>3, <3>1, <4>1, <4>2, <4>4
      <4> QED BY <4>3, <4>4
    <3>2. CASE t \notin {h, a}
      <4>1. t \in DOMAIN record /\ record'[t] = record[t] /\ games'[t] = games[t]
        BY <1>2, <2>1, <3>2, RecordAfter, GamesAfter DEF GraphTypeOK
      <4> QED BY <2>1, <4>1 DEF RecordCountsGames, Played
    <3> QED BY <3>1, <3>2
  <2>7. Counted'
    <3> SUFFICES ASSUME NEW t \in DOMAIN games', NEW i \in 1 .. Len(games'[t])
                 PROVE /\ games'[t][i].opponent \in DOMAIN record'
                       /\ record'[games'[t][i].opponent][Mirror[games'[t][i].outcome]] > 0
      BY DEF Counted
    <3>1. \/ t \in DOMAIN games /\ i \in 1 .. Len(games[t]) /\ games'[t][i] = games[t][i]
          \/ t = h /\ games'[t][i] = hg
          \/ t = a /\ games'[t][i] = ag
      BY <1>2, GamesAfter
    <3>2. CASE t \in DOMAIN games /\ i \in 1 .. Len(games[t]) /\ games'[t][i] = games[t][i]
      <4> DEFINE g == games[t][i]
      <4>1. g.opponent \in DOMAIN record /\ record[g.opponent][Mirror[g.outcome]] > 0
        BY <2>1, <3>2 DEF Counted
      <4>2. g \in Game
        BY <2>1, <3>2 DEF GraphTypeOK
      <4>3. Mirror[g.outcome] \in Outcomes
        BY <4>2 DEF Game, Mirror, Outcomes
      <4>4. record'[g.opponent][Mirror[g.outcome]] >= record[g.opponent][Mirror[g.outcome]]
        BY <1>2, <4>1, <4>3, RecordAfter
      <4>5. /\ record[g.opponent][Mirror[g.outcome]] \in Nat
            /\ record'[g.opponent][Mirror[g.outcome]] \in Nat
            /\ g.opponent \in DOMAIN record'
        BY <1>2, <2>1, <4>1, <4>3, RecordAfter DEF GraphTypeOK, Record
      <4> QED BY <3>2, <4>1, <4>4, <4>5
    <3>3. CASE games'[t][i] = hg
      BY <2>4, <2>2, <3>3
    <3>4. CASE games'[t][i] = ag
      BY <2>4, <2>2, <3>4
    <3> QED BY <3>1, <3>2, <3>3, <3>4
  <2> QED BY <2>5, <2>6, <2>7 DEF GraphIInv
<1>3. ASSUME GraphIInv, NEW m \in Match, SkipMatch(m) PROVE GraphIInv'
  BY <1>3 DEF SkipMatch, GraphIInv, GraphTypeOK, RecordCountsGames, Counted
<1> QED BY <1>1, <1>2, <1>3 DEF GraphNext

(* The inductive invariant holds after every prefix of the schedule.       *)
THEOREM GraphInvariant == GraphSpec => []GraphIInv
  BY InitGraph, NextGraph, PTL DEF GraphSpec

(* For every schedule, the two defaultdicts hold records and games of the  *)
(* same teams, and only these.                                             *)
THEOREM GraphTypeCorrect == GraphSpec => []GraphTypeOK
<1>1. GraphIInv => GraphTypeOK
  BY DEF GraphIInv
<1> QED BY <1>1, GraphInvariant, PTL

(* For every list of results, each team's record has as many games as its  *)
(* list, and at least one: no percentage divides by zero.                  *)
THEOREM RecordsAndGamesAgree == GraphSpec => []RecordCountsGames
<1>1. GraphIInv => RecordCountsGames
  BY DEF GraphIInv
<1> QED BY <1>1, GraphInvariant, PTL

(* For every list of results, the game that _opponent_wp_excluding takes   *)
(* out of an opponent's record is in that record.                          *)
THEOREM ExclusionIsCovered == GraphSpec => []ExclusionNeverNegative
<1>1. GraphIInv => ExclusionNeverNegative
  <2> SUFFICES ASSUME GraphIInv, NEW t \in DOMAIN games, NEW i \in 1 .. Len(games[t])
               PROVE LET g == games[t][i]
                     IN  /\ g.opponent \in DOMAIN record
                         /\ \A o \in Outcomes : Excluding(g.opponent, g.outcome)[o] >= 0
    BY DEF ExclusionNeverNegative
  <2> DEFINE g == games[t][i]
  <2>1. g \in Game /\ g.opponent \in DOMAIN record /\ record[g.opponent] \in Record
    BY DEF GraphIInv, GraphTypeOK, Counted
  <2>2. record[g.opponent][Mirror[g.outcome]] > 0
    BY DEF GraphIInv, Counted
  <2> QED BY <2>1, <2>2 DEF Excluding, Record, Outcomes, Game, Mirror
<1> QED BY <1>1, GraphInvariant, PTL

-----------------------------------------------------------------------------
\* How often a game is in a list, and what one more match adds to that.
Tally(s, g) == Cardinality({i \in 1 .. Len(s) : s[i] = g})
Bit(b) == IF b THEN 1 ELSE 0

LEMMA TallyType ==
  ASSUME NEW s \in Seq(Game), NEW x
  PROVE  Tally(s, x) \in Nat /\ IsFiniteSet({i \in 1 .. Len(s) : s[i] = x})
<1>1. Len(s) \in Nat /\ IsFiniteSet(1 .. Len(s))
  BY FS_Interval
<1>2. IsFiniteSet({i \in 1 .. Len(s) : s[i] = x})
  BY <1>1, FS_Subset
<1> QED BY <1>2, FS_CardinalityType DEF Tally

(* A game that is appended is one more of its kind.                        *)
LEMMA TallyAppend ==
  ASSUME NEW s \in Seq(Game), NEW g \in Game, NEW x
  PROVE  Tally(Append(s, g), x) = Tally(s, x) + Bit(g = x)
<1> DEFINE before == {i \in 1 .. Len(s) : s[i] = x}
           n == Len(s) + 1
<1>1. IsFiniteSet(before) /\ Cardinality(before) \in Nat
  BY TallyType DEF Tally
<1>2. n \notin before
  OBVIOUS
<1>3. /\ Len(Append(s, g)) = n /\ Append(s, g)[n] = g
      /\ \A i \in 1 .. Len(s) : Append(s, g)[i] = s[i]
  OBVIOUS
<1>4. CASE g = x
  <2>1. {i \in 1 .. Len(Append(s, g)) : Append(s, g)[i] = x} = before \union {n}
    BY <1>3, <1>4
  <2>2. Cardinality(before \union {n}) = Cardinality(before) + 1
    BY <1>1, <1>2, FS_AddElement
  <2> QED BY <1>4, <2>1, <2>2 DEF Tally, Bit
<1>5. CASE g # x
  <2>1. {i \in 1 .. Len(Append(s, g)) : Append(s, g)[i] = x} = before
    BY <1>3, <1>5
  <2>2. Tally(Append(s, g), x) = Tally(s, x) /\ Tally(s, x) \in Nat
    BY <1>1, <2>1 DEF Tally
  <2>3. Bit(g = x) = 0
    BY <1>5 DEF Bit
  <2> QED BY <2>2, <2>3
<1> QED BY <1>4, <1>5

(* What a match adds to the games of each two teams against each other.    *)
LEMMA MeetingsAfter ==
  ASSUME GraphIInv, NEW m \in Match, AddMatch(m), NEW t \in Teams, NEW u \in Teams, NEW o \in Outcomes
  PROVE  /\ Meetings(t, u, o) \in Nat
         /\ Meetings(t, u, o)' = Meetings(t, u, o)
                                   + Bit(m.home = t /\ m.away = u /\ HomeOutcome(m) = o)
                                   + Bit(m.away = t /\ m.home = u /\ AwayOutcome(m) = o)
<1> DEFINE h == m.home
           a == m.away
           hg == [opponent |-> a, outcome |-> HomeOutcome(m)]
           ag == [opponent |-> h, outcome |-> AwayOutcome(m)]
           x == [opponent |-> u, outcome |-> o]
           after == IF t \in DOMAIN games' THEN games'[t] ELSE <<>>
           sh == Append(GamesOf(h), hg)
           sa == Append(GamesOf(a), ag)
           sb == Append(sh, ag)
<1>1. h \in Teams /\ a \in Teams /\ hg \in Game /\ ag \in Game
  BY OutcomesMirror DEF Match, Game, AddMatch
<1>2. GamesOf(h) \in Seq(Game) /\ GamesOf(a) \in Seq(Game) /\ GamesOf(t) \in Seq(Game)
  BY <1>1, RecordOfType DEF GraphIInv
<1>3. sh \in Seq(Game)
  BY <1>1, <1>2
<1>4. Meetings(t, u, o) = Tally(GamesOf(t), x) /\ Meetings(t, u, o)' = Tally(after, x)
  BY DEF Meetings, Tally, GamesOf
<1>5. Tally(GamesOf(t), x) \in Nat
  BY <1>2, TallyType
<1>6. /\ Bit(hg = x) = Bit(a = u /\ HomeOutcome(m) = o)
      /\ Bit(ag = x) = Bit(h = u /\ AwayOutcome(m) = o)
  BY DEF Bit
<1>7. games' = IF h = a THEN Put(games, h, sb) ELSE Put(Put(games, h, sh), a, sa)
  BY DEF AddMatch, Games
<1>8. /\ Tally(sh, x) = Tally(GamesOf(h), x) + Bit(hg = x)
      /\ Tally(sa, x) = Tally(GamesOf(a), x) + Bit(ag = x)
      /\ Tally(sb, x) = Tally(sh, x) + Bit(ag = x)
  <2> HIDE DEF hg, ag, x
  <2>1. Tally(sh, x) = Tally(GamesOf(h), x) + Bit(hg = x)
    BY <1>1, <1>2, TallyAppend
  <2>2. Tally(sa, x) = Tally(GamesOf(a), x) + Bit(ag = x)
    BY <1>1, <1>2, TallyAppend
  <2> HIDE DEF sh
  <2>3. Tally(sb, x) = Tally(sh, x) + Bit(ag = x)
    BY <1>1, <1>3, TallyAppend
  <2> QED BY <2>1, <2>2, <2>3
<1>9. Bit(hg = x) \in Nat /\ Bit(ag = x) \in Nat
  BY DEF Bit
<1> HIDE DEF hg, ag, x, sh, sa, sb
<1>10. CASE t # h /\ t # a
  <2>1. after = GamesOf(t)
    BY <1>7, <1>10 DEF Put, GamesOf
  <2> QED BY <1>4, <1>5, <1>10, <2>1 DEF Bit
<1>11. CASE t = h /\ t # a
  <2>1. after = sh
    BY <1>7, <1>11 DEF Put
  <2> QED BY <1>4, <1>5, <1>6, <1>8, <1>9, <1>11, <2>1 DEF Bit
<1>12. CASE t # h /\ t = a
  <2>1. after = sa
    BY <1>7, <1>12 DEF Put
  <2> QED BY <1>4, <1>5, <1>6, <1>8, <1>9, <1>12, <2>1 DEF Bit
<1>13. CASE t = h /\ t = a
  <2>1. after = sb
    BY <1>7, <1>13 DEF Put
  <2> QED BY <1>4, <1>5, <1>6, <1>8, <1>9, <1>13, <2>1 DEF Bit
<1> QED BY <1>10, <1>11, <1>12, <1>13

(* Before the first match nobody has met.                                  *)
LEMMA InitMirrored == GraphInit => GamesAreMirrored
<1> SUFFICES ASSUME GraphInit PROVE GamesAreMirrored
  OBVIOUS
<1>1. \A t : GamesOf(t) = <<>>
  BY DEF GraphInit, EmptyDict, GamesOf
<1>2. \A t, u, o : Meetings(t, u, o) = Cardinality({})
  <2>1. \A t, u, o : {i \in 1 .. Len(GamesOf(t)) : GamesOf(t)[i] = [opponent |-> u, outcome |-> o]} = {}
    BY <1>1
  <2> QED BY <2>1 DEF Meetings
<1> QED BY <1>2 DEF GamesAreMirrored

(* A match adds as much to either side.                                    *)
LEMMA NextMirrored == GraphIInv /\ GamesAreMirrored /\ [GraphNext]_graphvars => GamesAreMirrored'
<1>1. ASSUME GamesAreMirrored, UNCHANGED games PROVE GamesAreMirrored'
  BY <1>1 DEF GamesAreMirrored, Meetings, GamesOf
<1>2. ASSUME GraphIInv, GamesAreMirrored, NEW m \in Match, AddMatch(m) PROVE GamesAreMirrored'
  <2> SUFFICES ASSUME NEW t \in Teams, NEW u \in Teams, NEW o \in Outcomes
               PROVE  Meetings(t, u, o)' = Meetings(u, t, Mirror[o])'
    BY DEF GamesAreMirrored
  <2> DEFINE q == Mirror[o]
             ho == HomeOutcome(m)
             ao == AwayOutcome(m)
  <2>1. q \in Outcomes /\ Meetings(t, u, o) = Meetings(u, t, q)
    BY <1>2 DEF GamesAreMirrored, Mirror, Outcomes
  <2>2. ho \in Outcomes /\ ao \in Outcomes /\ Mirror[ho] = ao /\ Mirror[ao] = ho
    BY <1>2, OutcomesMirror DEF AddMatch
  <2>3. (ho = o <=> ao = q) /\ (ao = o <=> ho = q)
    BY <2>2 DEF Mirror, Outcomes
  <2> HIDE DEF q, ho, ao
  <2>4. /\ Meetings(t, u, o)' = Meetings(t, u, o) + Bit(m.home = t /\ m.away = u /\ ho = o)
                                                  + Bit(m.away = t /\ m.home = u /\ ao = o)
        /\ Meetings(t, u, o) \in Nat
    BY <1>2, MeetingsAfter DEF ho, ao
  <2>5. Meetings(u, t, q)' = Meetings(u, t, q) + Bit(m.home = u /\ m.away = t /\ ho = q)
                                               + Bit(m.away = u /\ m.home = t /\ ao = q)
    BY <1>2, <2>1, MeetingsAfter DEF ho, ao
  <2>6. /\ Bit(m.home = t /\ m.away = u /\ ho = o) = Bit(m.away = u /\ m.home = t /\ ao = q)
        /\ Bit(m.away = t /\ m.home = u /\ ao = o) = Bit(m.home = u /\ m.away = t /\ ho = q)
        /\ Bit(m.home = t /\ m.away = u /\ ho = o) \in Nat
        /\ Bit(m.away = t /\ m.home = u /\ ao = o) \in Nat
    BY <2>3 DEF Bit
  <2>7. Meetings(t, u, o)' = Meetings(u, t, q)'
    BY <2>1, <2>4, <2>5, <2>6
  <2> QED BY <2>7 DEF q
<1> QED BY <1>1, <1>2 DEF GraphNext, SkipMatch, graphvars

(* For every schedule, two teams have the same games against each other,   *)
(* seen from both sides - a team that is listed against itself included.   *)
THEOREM MirroredGames == GraphSpec => []GamesAreMirrored
  BY GraphInvariant, InitMirrored, NextMirrored, PTL DEF GraphSpec

-----------------------------------------------------------------------------
\* The matches of the schedule that a record counts, at home and away.
HomeGames(t, o) == {i \in Results : schedule[i].home = t /\ HomeOutcome(schedule[i]) = o}
AwayGames(t, o) == {i \in Results : schedule[i].away = t /\ AwayOutcome(schedule[i]) = o}

\* A record counts what the schedule shows.
ShownInRecord == \A t \in Teams, o \in Outcomes :
  RecordOf(record, t)[o] = Cardinality(HomeGames(t, o)) + Cardinality(AwayGames(t, o))

\* Match m is game g of t.
ShownBy(m, t, g) ==
  \/ t = m.home /\ m.away = g.opponent /\ HomeOutcome(m) = g.outcome
  \/ t = m.away /\ m.home = g.opponent /\ AwayOutcome(m) = g.outcome

\* Each game in a list is a match of the schedule.
ShownInSchedule == \A t \in DOMAIN games : \A i \in 1 .. Len(games[t]) :
  \E k \in Results : ShownBy(schedule[k], t, games[t][i])

(* Counting a game adds one where it belongs, and nowhere else.            *)
LEMMA CountAdds ==
  ASSUME NEW rec, \A t \in Teams : RecordOf(rec, t) \in Record,
         NEW x \in Teams, NEW p \in Outcomes, NEW t \in Teams
  PROVE  /\ RecordOf(Count(rec, x, p), t) \in Record
         /\ \A o \in Outcomes :
              RecordOf(Count(rec, x, p), t)[o] = RecordOf(rec, t)[o] + Bit(x = t /\ p = o)
<1> DEFINE new == [RecordOf(rec, x) EXCEPT ![p] = @ + 1]
<1>1. new \in Record /\ \A o \in Outcomes : new[o] = RecordOf(rec, x)[o] + (IF p = o THEN 1 ELSE 0)
  BY DEF Record
<1>2. RecordOf(Put(rec, x, new), t) = IF t = x THEN new ELSE RecordOf(rec, t)
  <2> HIDE DEF new
  <2> QED BY DEF RecordOf, Put
<1>3. Count(rec, x, p) = Put(rec, x, new)
  BY DEF Count
<1> HIDE DEF new
<1>4. CASE t = x
  BY <1>1, <1>2, <1>3, <1>4 DEF Bit
<1>5. CASE t # x
  <2>1. \A o \in Outcomes : RecordOf(rec, t)[o] \in Nat
    BY DEF Record
  <2> QED BY <1>2, <1>3, <1>5, <2>1 DEF Bit
<1> QED BY <1>4, <1>5

LEMMA RecordAdds ==
  ASSUME GraphIInv, NEW m \in Match, AddMatch(m), NEW t \in Teams, NEW o \in Outcomes
  PROVE  RecordOf(record', t)[o] = RecordOf(record, t)[o]
                                     + Bit(m.home = t /\ HomeOutcome(m) = o)
                                     + Bit(m.away = t /\ AwayOutcome(m) = o)
<1> DEFINE r1 == Count(record, m.home, HomeOutcome(m))
<1>1. /\ m.home \in Teams /\ m.away \in Teams
      /\ HomeOutcome(m) \in Outcomes /\ AwayOutcome(m) \in Outcomes
  BY OutcomesMirror DEF Match, AddMatch
<1>2. \A u \in Teams : RecordOf(record, u) \in Record
  BY RecordOfType DEF GraphIInv
<1>3. \A u \in Teams : RecordOf(r1, u) \in Record
  <2> TAKE u \in Teams
  <2> QED BY <1>1, <1>2, CountAdds
<1>4. RecordOf(r1, t)[o] = RecordOf(record, t)[o] + Bit(m.home = t /\ HomeOutcome(m) = o)
  BY <1>1, <1>2, CountAdds
<1>5. record' = Count(r1, m.away, AwayOutcome(m))
  BY DEF AddMatch
<1> HIDE DEF r1
<1>6. RecordOf(Count(r1, m.away, AwayOutcome(m)), t)[o]
        = RecordOf(r1, t)[o] + Bit(m.away = t /\ AwayOutcome(m) = o)
  BY <1>1, <1>3, CountAdds
<1> QED BY <1>4, <1>5, <1>6

\* What a match adds to the results: itself, if it has been played.
LEMMA ResultsAfter ==
  ASSUME GraphTypeOK, NEW m \in Match, schedule' = Append(schedule, m)
  PROVE  LET n == Len(schedule) + 1
         IN  /\ Results' = IF IsPlayed(m) THEN Results \union {n} ELSE Results
             /\ n \notin Results /\ schedule'[n] = m
             /\ \A i \in Results : schedule'[i] = schedule[i]
<1> DEFINE n == Len(schedule) + 1
<1>1. schedule \in Seq(Match) /\ Len(schedule) \in Nat
  BY DEF GraphTypeOK
<1>2. /\ Len(schedule') = n /\ schedule'[n] = m
      /\ \A i \in 1 .. Len(schedule) : schedule'[i] = schedule[i]
  BY <1>1
<1>3. IsPlayed(m) <=> {m.homeScore, m.awayScore} \subseteq Int
  BY GraphAssumption DEF Match, IsPlayed
<1>4. 1 .. n = (1 .. Len(schedule)) \union {n} /\ n \notin 1 .. Len(schedule)
  BY <1>1
<1>5. Results' = {i \in 1 .. n : {schedule'[i].homeScore, schedule'[i].awayScore} \subseteq Int}
  BY <1>2 DEF Results
<1>6. Results' = IF IsPlayed(m) THEN Results \union {n} ELSE Results
  BY <1>2, <1>3, <1>4, <1>5 DEF Results
<1>7. n \notin Results /\ \A i \in Results : schedule'[i] = schedule[i]
  BY <1>2, <1>4 DEF Results
<1> QED BY <1>2, <1>6, <1>7

LEMMA ResultsFinite ==
  ASSUME GraphTypeOK
  PROVE  /\ IsFiniteSet(Results)
         /\ \A t, o : /\ IsFiniteSet(HomeGames(t, o)) /\ Cardinality(HomeGames(t, o)) \in Nat
                      /\ IsFiniteSet(AwayGames(t, o)) /\ Cardinality(AwayGames(t, o)) \in Nat
<1>1. Len(schedule) \in Nat
  BY DEF GraphTypeOK
<1>2. IsFiniteSet(1 .. Len(schedule))
  BY <1>1, FS_Interval
<1>3. IsFiniteSet(Results)
  BY <1>2, FS_Subset DEF Results
<1>4. \A t, o : HomeGames(t, o) \in SUBSET Results /\ AwayGames(t, o) \in SUBSET Results
  BY DEF HomeGames, AwayGames
<1> QED BY <1>3, <1>4, FS_Subset, FS_CardinalityType

\* The sets of matches, with one more.
LEMMA ShownAfter ==
  ASSUME GraphIInv, NEW m \in Match, AddMatch(m), NEW t \in Teams, NEW o \in Outcomes
  PROVE  /\ Cardinality(HomeGames(t, o)') = Cardinality(HomeGames(t, o))
                                              + Bit(m.home = t /\ HomeOutcome(m) = o)
         /\ Cardinality(AwayGames(t, o)') = Cardinality(AwayGames(t, o))
                                              + Bit(m.away = t /\ AwayOutcome(m) = o)
<1> DEFINE n == Len(schedule) + 1
<1>1. /\ Results' = Results \union {n} /\ n \notin Results /\ schedule'[n] = m
      /\ \A i \in Results : schedule'[i] = schedule[i]
  BY ResultsAfter DEF AddMatch, GraphIInv
<1>2. /\ IsFiniteSet(HomeGames(t, o)) /\ Cardinality(HomeGames(t, o)) \in Nat
      /\ IsFiniteSet(AwayGames(t, o)) /\ Cardinality(AwayGames(t, o)) \in Nat
  BY ResultsFinite DEF GraphIInv
<1> HIDE DEF n
<1>3. /\ HomeGames(t, o)' = IF m.home = t /\ HomeOutcome(m) = o
                            THEN HomeGames(t, o) \union {n} ELSE HomeGames(t, o)
      /\ n \notin HomeGames(t, o)
  BY <1>1 DEF HomeGames, HomeOutcome, Outcome
<1>4. /\ AwayGames(t, o)' = IF m.away = t /\ AwayOutcome(m) = o
                            THEN AwayGames(t, o) \union {n} ELSE AwayGames(t, o)
      /\ n \notin AwayGames(t, o)
  BY <1>1 DEF AwayGames, AwayOutcome, Outcome
<1>5. Cardinality(HomeGames(t, o)') = Cardinality(HomeGames(t, o))
                                        + Bit(m.home = t /\ HomeOutcome(m) = o)
  <2>1. Cardinality(HomeGames(t, o) \union {n}) = Cardinality(HomeGames(t, o)) + 1
    BY <1>2, <1>3, FS_AddElement
  <2> QED BY <1>2, <1>3, <2>1 DEF Bit
<1>6. Cardinality(AwayGames(t, o)') = Cardinality(AwayGames(t, o))
                                        + Bit(m.away = t /\ AwayOutcome(m) = o)
  <2>1. Cardinality(AwayGames(t, o) \union {n}) = Cardinality(AwayGames(t, o)) + 1
    BY <1>2, <1>4, FS_AddElement
  <2> QED BY <1>2, <1>4, <2>1 DEF Bit
<1> QED BY <1>5, <1>6

LEMMA InitShown == GraphInit => ShownInRecord /\ ShownInSchedule
<1> SUFFICES ASSUME GraphInit PROVE ShownInRecord /\ ShownInSchedule
  OBVIOUS
<1>1. Results = {}
  BY DEF GraphInit, Results
<1>2. \A t, o : HomeGames(t, o) = {} /\ AwayGames(t, o) = {}
  BY <1>1 DEF HomeGames, AwayGames
<1>3. Cardinality({}) = 0
  BY FS_EmptySet
<1>4. \A t \in Teams, o \in Outcomes : RecordOf(record, t)[o] = 0
  BY DEF GraphInit, EmptyDict, RecordOf
<1>5. ShownInRecord
  BY <1>2, <1>3, <1>4 DEF ShownInRecord
<1>6. ShownInSchedule
  BY DEF GraphInit, EmptyDict, ShownInSchedule
<1> QED BY <1>5, <1>6

LEMMA NextShown ==
  GraphIInv /\ ShownInRecord /\ ShownInSchedule /\ [GraphNext]_graphvars => ShownInRecord' /\ ShownInSchedule'
<1> SUFFICES ASSUME GraphIInv, ShownInRecord, ShownInSchedule, [GraphNext]_graphvars
             PROVE  ShownInRecord' /\ ShownInSchedule'
  OBVIOUS
<1>1. ASSUME NEW m \in Match, AddMatch(m) PROVE ShownInRecord'
  <2> SUFFICES ASSUME NEW t \in Teams, NEW o \in Outcomes
               PROVE  RecordOf(record', t)[o]
                        = Cardinality(HomeGames(t, o)') + Cardinality(AwayGames(t, o)')
    BY DEF ShownInRecord
  <2>1. RecordOf(record, t)[o] = Cardinality(HomeGames(t, o)) + Cardinality(AwayGames(t, o))
    BY DEF ShownInRecord
  <2>2. Cardinality(HomeGames(t, o)) \in Nat /\ Cardinality(AwayGames(t, o)) \in Nat
    BY ResultsFinite DEF GraphIInv
  <2>3. /\ Bit(m.home = t /\ HomeOutcome(m) = o) \in Nat
        /\ Bit(m.away = t /\ AwayOutcome(m) = o) \in Nat
    BY DEF Bit
  <2> QED BY <1>1, <2>1, <2>2, <2>3, RecordAdds, ShownAfter
<1>2. ASSUME NEW m \in Match, AddMatch(m) PROVE ShownInSchedule'
  <2> DEFINE n == Len(schedule) + 1
             hg == [opponent |-> m.away, outcome |-> HomeOutcome(m)]
             ag == [opponent |-> m.home, outcome |-> AwayOutcome(m)]
  <2>1. /\ Results' = Results \union {n} /\ schedule'[n] = m
        /\ \A i \in Results : schedule'[i] = schedule[i]
    BY <1>2, ResultsAfter DEF AddMatch, GraphIInv
  <2> HIDE DEF n
  <2>2. /\ DOMAIN games' = DOMAIN games \union {m.home, m.away}
        /\ \A t \in DOMAIN games' : \A i \in 1 .. Len(games'[t]) :
             \/ t \in DOMAIN games /\ i \in 1 .. Len(games[t]) /\ games'[t][i] = games[t][i]
             \/ t = m.home /\ games'[t][i] = hg
             \/ t = m.away /\ games'[t][i] = ag
    BY <1>2, GamesAfter
  <2> SUFFICES ASSUME NEW t \in DOMAIN games', NEW i \in 1 .. Len(games'[t]), NEW g, g = games'[t][i]
               PROVE  \E k \in Results' : ShownBy(schedule'[k], t, g)
    BY DEF ShownInSchedule
  <2>3. CASE t \in DOMAIN games /\ i \in 1 .. Len(games[t]) /\ games'[t][i] = games[t][i]
    <3>1. PICK k \in Results : ShownBy(schedule[k], t, g)
      BY <2>3 DEF ShownInSchedule
    <3>2. k \in Results' /\ schedule'[k] = schedule[k]
      BY <2>1
    <3> QED BY <3>1, <3>2
  <2>4. CASE t = m.home /\ games'[t][i] = hg
    <3>1. ShownBy(m, t, g)
      BY <2>4 DEF ShownBy
    <3> QED BY <2>1, <3>1
  <2>5. CASE t = m.away /\ games'[t][i] = ag
    <3>1. ShownBy(m, t, g)
      BY <2>5 DEF ShownBy
    <3> QED BY <2>1, <3>1
  <2> QED BY <2>2, <2>3, <2>4, <2>5
<1>3. ASSUME UNCHANGED <<record, games>>, Results' = Results,
             \A i \in Results : schedule'[i] = schedule[i]
      PROVE  ShownInRecord' /\ ShownInSchedule'
  <2>1. \A t, o : HomeGames(t, o)' = HomeGames(t, o) /\ AwayGames(t, o)' = AwayGames(t, o)
    BY <1>3 DEF HomeGames, AwayGames, HomeOutcome, AwayOutcome
  <2>3. ShownInRecord'
    BY <1>3, <2>1 DEF ShownInRecord
  <2>4. ShownInSchedule'
    BY <1>3 DEF ShownInSchedule
  <2> QED BY <2>3, <2>4
<1>4. ASSUME NEW m \in Match, SkipMatch(m) PROVE ShownInRecord' /\ ShownInSchedule'
  <2>1. Results' = Results /\ \A i \in Results : schedule'[i] = schedule[i]
    BY <1>4, ResultsAfter DEF SkipMatch, GraphIInv
  <2> QED BY <1>3, <1>4, <2>1 DEF SkipMatch
<1>5. CASE UNCHANGED graphvars
  <2>1. Results' = Results /\ \A i \in Results : schedule'[i] = schedule[i]
    BY <1>5 DEF graphvars, Results
  <2> QED BY <1>3, <1>5, <2>1 DEF graphvars
<1> QED BY <1>1, <1>2, <1>4, <1>5 DEF GraphNext

(* Without the one match in which u met t, u's record is short of the game *)
(* that the match was for u.                                               *)
LEMMA OneMatchOut ==
  ASSUME GraphIInv, ShownInRecord, NEW t \in Teams, NEW u \in Teams, t # u, NEW g \in Game,
         g.opponent = u, NEW k \in Results, ShownBy(schedule[k], t, g), NEW o \in Outcomes
  PROVE  RecordWithout(u, {k})[o] = RecordOf(record, u)[o] - Bit(o = Mirror[g.outcome])
<1> DEFINE m == schedule[k]
           H == HomeGames(u, o)
           A == AwayGames(u, o)
<1>1. m \in Match /\ IsPlayed(m)
  <2>1. schedule \in Seq(Match) /\ k \in 1 .. Len(schedule)
    BY DEF GraphIInv, GraphTypeOK, Results
  <2> QED BY <2>1, GraphAssumption DEF Results, IsPlayed
<1>2. Mirror[HomeOutcome(m)] = AwayOutcome(m) /\ Mirror[AwayOutcome(m)] = HomeOutcome(m)
  BY <1>1, OutcomesMirror
<1>3. /\ RecordOf(record, u)[o] = Cardinality(H) + Cardinality(A)
      /\ IsFiniteSet(H) /\ Cardinality(H) \in Nat /\ IsFiniteSet(A) /\ Cardinality(A) \in Nat
  BY ResultsFinite DEF ShownInRecord, GraphIInv
<1>4. /\ {i \in Results \ {k} : schedule[i].home = u /\ HomeOutcome(schedule[i]) = o} = H \ {k}
      /\ {i \in Results \ {k} : schedule[i].away = u /\ AwayOutcome(schedule[i]) = o} = A \ {k}
  BY DEF HomeGames, AwayGames
<1>5. RecordWithout(u, {k})[o] = Cardinality(H \ {k}) + Cardinality(A \ {k})
  BY <1>4 DEF RecordWithout
<1>6. k \in H <=> m.home = u /\ HomeOutcome(m) = o
  BY DEF HomeGames
<1>7. k \in A <=> m.away = u /\ AwayOutcome(m) = o
  BY DEF AwayGames
<1>8. /\ Cardinality(H \ {k}) = IF k \in H THEN Cardinality(H) - 1 ELSE Cardinality(H)
      /\ Cardinality(A \ {k}) = IF k \in A THEN Cardinality(A) - 1 ELSE Cardinality(A)
  BY <1>3, FS_RemoveElement
<1>9. CASE m.home = t /\ m.away = u /\ HomeOutcome(m) = g.outcome
  <2>1. k \notin H /\ (k \in A <=> o = Mirror[g.outcome])
    BY <1>2, <1>6, <1>7, <1>9
  <2> HIDE DEF H, A
  <2> QED BY <1>3, <1>5, <1>8, <2>1 DEF Bit
<1>10. CASE m.away = t /\ m.home = u /\ AwayOutcome(m) = g.outcome
  <2>1. k \notin A /\ (k \in H <=> o = Mirror[g.outcome])
    BY <1>2, <1>6, <1>7, <1>10
  <2> HIDE DEF H, A
  <2> QED BY <1>3, <1>5, <1>8, <2>1 DEF Bit
<1> QED BY <1>9, <1>10 DEF ShownBy

(* For every schedule, the record that _opponent_wp_excluding leaves to an *)
(* opponent is the one it would have without the match, if the two teams   *)
(* met once.                                                               *)
THEOREM ExclusionIsExactOnce == GraphSpec => []ExclusionIsExact
<1>1. GraphIInv /\ ShownInRecord /\ ShownInSchedule => ExclusionIsExact
  <2> SUFFICES ASSUME GraphIInv, ShownInRecord, ShownInSchedule,
                      NEW t \in DOMAIN games, NEW i \in 1 .. Len(games[t]),
                      games[t][i].opponent # t,
                      Cardinality(Between(t, games[t][i].opponent)) = 1
               PROVE  Excluding(games[t][i].opponent, games[t][i].outcome)
                        = RecordWithout(games[t][i].opponent, Between(t, games[t][i].opponent))
    BY DEF ExclusionIsExact
  <2>1. PICK g : g = games[t][i]
    OBVIOUS
  <2> DEFINE u == g.opponent
             q == Mirror[g.outcome]
  <2>2. t \in Teams /\ g \in Game
    BY <2>1 DEF GraphIInv, GraphTypeOK
  <2>3. u \in Teams /\ u \in DOMAIN record
    BY <2>1, <2>2 DEF GraphIInv, Counted, Game
  <2>4. q \in Outcomes
    BY <2>2 DEF Game, Mirror, Outcomes
  <2>5. PICK k \in Results : ShownBy(schedule[k], t, g)
    BY <2>1 DEF ShownInSchedule
  <2>6. k \in Between(t, u)
    BY <2>5 DEF ShownBy, Between
  <2>7. Between(t, u) = {k}
    <3>1. IsFiniteSet(Between(t, u))
      BY ResultsFinite, FS_Subset DEF GraphIInv, Between
    <3>2. Cardinality(Between(t, u)) = 1
      BY <2>1
    <3>3. PICK x : Between(t, u) = {x}
      BY <3>1, <3>2, FS_Singleton
    <3> QED BY <2>6, <3>3
  <2>8. record[u] \in Record /\ RecordOf(record, u) = record[u]
    BY <2>3 DEF GraphIInv, GraphTypeOK, RecordOf
  <2>9. \A o \in Outcomes : RecordWithout(u, {k})[o] = record[u][o] - Bit(o = q)
    <3> TAKE o \in Outcomes
    <3>1. t # u /\ g.opponent = u
      BY <2>1
    <3> HIDE DEF u
    <3>2. t \in Teams /\ u \in Teams /\ g \in Game /\ k \in Results /\ o \in Outcomes
      BY <2>2, <2>3
    <3> HIDE DEF q
    <3>3. RecordWithout(u, {k})[o] = RecordOf(record, u)[o] - Bit(o = Mirror[g.outcome])
      BY <2>5, <3>1, <3>2, OneMatchOut
    <3> QED BY <2>8, <3>3 DEF q
  <2>10. \A o \in Outcomes : record[u][o] \in Nat
    BY <2>8 DEF Record
  <2>11. DOMAIN record[u] = Outcomes
    BY <2>8 DEF Record
  <2> HIDE DEF q, u
  <2>12. Excluding(u, g.outcome) = [record[u] EXCEPT ![q] = @ - 1]
    BY DEF Excluding, q
  <2>13. \A o \in Outcomes : [record[u] EXCEPT ![q] = @ - 1][o] = RecordWithout(u, {k})[o]
    <3> TAKE o \in Outcomes
    <3>1. CASE o = q
      BY <2>4, <2>9, <2>10, <2>11, <3>1 DEF Bit
    <3>2. CASE o # q
      <4>1. RecordWithout(u, {k})[o] = record[u][o] - 0
        BY <2>9, <3>2 DEF Bit
      <4>2. record[u][o] - 0 = record[u][o]
        BY <2>10
      <4> QED BY <2>11, <3>2, <4>1, <4>2
    <3> QED BY <3>1, <3>2
  <2>14. RecordWithout(u, {k}) = [o \in Outcomes |-> RecordWithout(u, {k})[o]]
    BY DEF RecordWithout
  <2>15. [record[u] EXCEPT ![q] = @ - 1] = [o \in Outcomes |-> [record[u] EXCEPT ![q] = @ - 1][o]]
    BY <2>8 DEF Record
  <2>16. Excluding(u, g.outcome) = RecordWithout(u, {k})
    BY <2>12, <2>13, <2>14, <2>15
  <2> QED BY <2>1, <2>7, <2>16 DEF u
<1> QED BY <1>1, GraphInvariant, InitShown, NextShown, PTL DEF GraphSpec

-----------------------------------------------------------------------------
\* The tables that are asked for have keys of their own.
LEMMA AskedTables == Asked = Tables
BY DEF Asked, Tables, Key

(* The inductive invariant: whatever is in the memo is in its order, so a  *)
(* use of a table in the memo moves an entry and does not add one.         *)
Listed == \A t \in DOMAIN memo : \E i \in 1 .. Len(order) : order[i] = t

Waiting == /\ request = [c \in Calls |-> request[c]]
           /\ \A c \in Calls : request[c].pc = "waiting" => request[c].table \in Tables

IInv == /\ order \in Seq(Tables)
        /\ MemoBounded
        /\ Listed
        /\ Waiting

(* What stands where once an element is removed.                           *)
LEMMA RemoveAtPlaces ==
  ASSUME NEW S, NEW s \in Seq(S), NEW i \in 1 .. Len(s)
  PROVE  /\ RemoveAt(s, i) \in Seq(S)
         /\ Len(RemoveAt(s, i)) = Len(s) - 1
         /\ \A k \in 1 .. Len(s) - 1 : RemoveAt(s, i)[k] = IF k < i THEN s[k] ELSE s[k + 1]
<1> DEFINE front == SubSeq(s, 1, i - 1)
           back == SubSeq(s, i + 1, Len(s))
<1>0. Len(s) \in Nat /\ i \in Nat
  BY LenProperties
<1>1. front \in Seq(S) /\ Len(front) = i - 1
      /\ \A k \in 1 .. i - 1 : front[k] = s[k]
  BY <1>0, SubSeqProperties
<1>2. back \in Seq(S) /\ Len(back) = Len(s) - i
      /\ \A k \in 1 .. Len(s) - i : back[k] = s[i + k]
  BY <1>0, SubSeqProperties
<1>3. RemoveAt(s, i) = front \o back
  BY DEF RemoveAt
<1> HIDE DEF front, back
<1>4. /\ front \o back \in Seq(S)
      /\ Len(front \o back) = Len(front) + Len(back)
      /\ \A k \in 1 .. Len(front) + Len(back) :
           (front \o back)[k] = IF k <= Len(front) THEN front[k] ELSE back[k - Len(front)]
  BY <1>1, <1>2, ConcatProperties
<1>5. Len(front) + Len(back) = Len(s) - 1 /\ Len(front) = i - 1
  BY <1>0, <1>1, <1>2
<1>6. ASSUME NEW k \in 1 .. Len(s) - 1
      PROVE  (front \o back)[k] = IF k < i THEN s[k] ELSE s[k + 1]
  <2>1. (front \o back)[k] = IF k <= i - 1 THEN front[k] ELSE back[k - (i - 1)]
    BY <1>4, <1>5
  <2>2. CASE k < i
    <3>1. k \in 1 .. i - 1 /\ k <= i - 1
      BY <1>0, <2>2
    <3> QED BY <1>1, <2>1, <2>2, <3>1
  <2>3. CASE ~(k < i)
    <3>1. k - (i - 1) \in 1 .. Len(s) - i /\ ~(k <= i - 1) /\ i + (k - (i - 1)) = k + 1
      BY <1>0, <2>3
    <3> QED BY <1>2, <2>1, <2>3, <3>1
  <2> QED BY <2>2, <2>3
<1> QED BY <1>3, <1>4, <1>5, <1>6

(* Removing an element keeps the others.                                   *)
LEMMA RemoveAtFacts ==
  ASSUME NEW S, NEW s \in Seq(S), NEW i \in 1 .. Len(s)
  PROVE  \A j \in 1 .. Len(s) : j # i =>
           \E k \in 1 .. Len(RemoveAt(s, i)) : RemoveAt(s, i)[k] = s[j]
<1>0. Len(s) \in Nat /\ i \in Nat
  BY LenProperties
<1>1. /\ Len(RemoveAt(s, i)) = Len(s) - 1
      /\ \A k \in 1 .. Len(s) - 1 : RemoveAt(s, i)[k] = IF k < i THEN s[k] ELSE s[k + 1]
  BY RemoveAtPlaces
<1> SUFFICES ASSUME NEW j \in 1 .. Len(s), j # i
             PROVE  \E k \in 1 .. Len(s) - 1 : RemoveAt(s, i)[k] = s[j]
  BY <1>1
<1>2. CASE j < i
  <2>1. j \in 1 .. Len(s) - 1
    BY <1>0, <1>2
  <2> QED BY <1>1, <1>2, <2>1
<1>3. CASE ~(j < i)
  <2>1. j - 1 \in 1 .. Len(s) - 1 /\ ~(j - 1 < i) /\ (j - 1) + 1 = j
    BY <1>0, <1>3
  <2>2. RemoveAt(s, i)[j - 1] = s[(j - 1) + 1]
    BY <1>1, <2>1
  <2> QED BY <2>1, <2>2
<1> QED BY <1>2, <1>3

(* What a use of t makes of the order.                                     *)
LEMMA UsedFacts ==
  ASSUME order \in Seq(Tables), Listed, NEW t \in Tables
  PROVE  /\ Used(t) \in Seq(Tables)
         /\ Len(Used(t)) = IF t \in DOMAIN memo THEN Len(order) ELSE Len(order) + 1
         /\ Len(Used(t)) >= 1
         /\ \A u \in DOMAIN memo \union {t} : \E i \in 1 .. Len(Used(t)) : Used(t)[i] = u
<1>0. Len(order) \in Nat
  BY LenProperties
<1>1. CASE t \notin DOMAIN memo
  <2>1. Used(t) = Append(order, t)
    BY <1>1 DEF Used
  <2>2. /\ Append(order, t) \in Seq(Tables)
        /\ Len(Append(order, t)) = Len(order) + 1
        /\ \A i \in 1 .. Len(order) : Append(order, t)[i] = order[i]
        /\ Append(order, t)[Len(order) + 1] = t
    BY AppendProperties
  <2>3. \A u \in DOMAIN memo \union {t} :
          \E i \in 1 .. Len(order) + 1 : Append(order, t)[i] = u
    BY <2>2, <1>0 DEF Listed
  <2> QED
    BY <1>0, <1>1, <2>1, <2>2, <2>3
<1>2. CASE t \in DOMAIN memo
  <2> DEFINE p == Position(t)
             rest == RemoveAt(order, p)
  <2>1. p \in 1 .. Len(order) /\ order[p] = t
    BY <1>2 DEF Listed, Position
  <2>2. Used(t) = Append(rest, t)
    BY <1>2 DEF Used
  <2>3. /\ rest \in Seq(Tables)
        /\ Len(rest) = Len(order) - 1
        /\ \A j \in 1 .. Len(order) : j # p => \E k \in 1 .. Len(rest) : rest[k] = order[j]
    BY <2>1, RemoveAtPlaces, RemoveAtFacts
  <2> HIDE DEF p, rest
  <2>4. /\ Append(rest, t) \in Seq(Tables)
        /\ Len(Append(rest, t)) = Len(order)
        /\ \A i \in 1 .. Len(order) - 1 : Append(rest, t)[i] = rest[i]
        /\ Append(rest, t)[Len(order)] = t
    BY <2>3, <1>0, AppendProperties
  <2>5. Len(order) >= 1
    BY <2>1, <1>0
  <2>6. ASSUME NEW u \in DOMAIN memo \union {t}
        PROVE  \E i \in 1 .. Len(order) : Append(rest, t)[i] = u
    <3>1. CASE u = t
      BY <3>1, <2>4, <2>5, <1>0
    <3>2. CASE u # t
      <4>1. PICK j \in 1 .. Len(order) : order[j] = u
        BY <3>2 DEF Listed
      <4>2. j # p
        BY <4>1, <3>2, <2>1
      <4>3. PICK k \in 1 .. Len(order) - 1 : rest[k] = u
        BY <4>1, <4>2, <2>3
      <4>4. k \in 1 .. Len(order) /\ Append(rest, t)[k] = u
        BY <4>3, <2>4, <1>0
      <4> QED
        BY <4>4
    <3> QED
      BY <3>1, <3>2
  <2> QED
    BY <1>2, <2>2, <2>4, <2>5, <2>6
<1> QED
  BY <1>1, <1>2

-----------------------------------------------------------------------------
(* Storing a table keeps the invariant on the memo, evicting or not.       *)
LEMMA MemoizeKeeps ==
  ASSUME ServiceAssumption, IInv,
         NEW c \in Calls, NEW t \in Tables, NEW at, Memoize(c, t, at)
  PROVE  IInv'
<1> DEFINE stored == Put(memo, t, [expiry |-> now + RpiTtlSeconds, at |-> at])
           used == Used(t)
<1>1. /\ used \in Seq(Tables)
      /\ Len(used) = IF t \in DOMAIN memo THEN Len(order) ELSE Len(order) + 1
      /\ Len(used) >= 1
      /\ \A u \in DOMAIN memo \union {t} : \E i \in 1 .. Len(used) : used[i] = u
  BY UsedFacts DEF IInv
<1>2. DOMAIN stored = DOMAIN memo \union {t}
  BY DEF Put
<1>3. /\ Set(c, [pc |-> "answered", table |-> t, at |-> at])
      /\ \/ ~Full(used) /\ order' = used /\ memo' = stored
         \/ Full(used) /\ order' = Tail(used) /\ memo' = Del(stored, Head(used))
  BY DEF Memoize
<1> HIDE DEF stored, used
<1>4. Waiting'
  BY <1>3 DEF IInv, Waiting, Set
<1>5. RpiCacheSize \in Nat /\ Len(order) \in Nat /\ Len(used) \in Nat /\ Len(order) <= RpiCacheSize
  BY <1>1, LenProperties DEF IInv, ServiceAssumption, MemoBounded
<1>6. CASE ~Full(used) /\ order' = used /\ memo' = stored
  <2>1. MemoBounded'
    BY <1>5, <1>6 DEF Full, MemoBounded
  <2>2. Listed'
    BY <1>1, <1>2, <1>6 DEF Listed
  <2> QED
    BY <1>1, <1>4, <1>6, <2>1, <2>2 DEF IInv
<1>7. CASE Full(used) /\ order' = Tail(used) /\ memo' = Del(stored, Head(used))
  <2>1. used # <<>>
    BY <1>1
  <2>2. /\ Tail(used) \in Seq(Tables)
        /\ Len(Tail(used)) = Len(used) - 1
        /\ \A i \in 1 .. Len(Tail(used)) : Tail(used)[i] = used[i + 1]
    BY <1>1, <2>1, HeadTailProperties
  <2>3. MemoBounded'
    BY <1>1, <1>5, <1>7, <2>2 DEF MemoBounded
  <2>4. Head(used) = used[1]
    BY <1>1, <2>1
  <2>5. ASSUME NEW u \in DOMAIN memo'
        PROVE  \E i \in 1 .. Len(Tail(used)) : Tail(used)[i] = u
    <3>1. u \in DOMAIN memo \union {t} /\ u # used[1]
      BY <1>2, <1>7, <2>4 DEF Del
    <3>2. PICK i \in 1 .. Len(used) : used[i] = u
      BY <1>1, <3>1
    <3>3. i # 1
      BY <3>1, <3>2
    <3>4. i - 1 \in 1 .. Len(Tail(used)) /\ (i - 1) + 1 = i
      BY <1>5, <2>2, <3>3
    <3>5. Tail(used)[i - 1] = u
      BY <2>2, <3>2, <3>4
    <3> QED
      BY <3>4, <3>5
  <2>6. Listed'
    BY <1>7, <2>5 DEF Listed
  <2> QED
    BY <1>4, <1>7, <2>2, <2>3, <2>6 DEF IInv
<1> QED
  BY <1>3, <1>6, <1>7

(* The memo starts empty, and the order with it.                           *)
LEMMA InitIInv == ServiceAssumption /\ Init => IInv
<1> SUFFICES ASSUME ServiceAssumption, Init PROVE IInv
  OBVIOUS
<1>1. order \in Seq(Tables) /\ Len(order) = 0
  BY DEF Init
<1>2. MemoBounded
  BY <1>1 DEF MemoBounded, ServiceAssumption
<1>3. Listed
  BY DEF Init, Listed, EmptyDict
<1>4. Waiting
  BY DEF Init, Waiting
<1> QED
  BY <1>1, <1>2, <1>3, <1>4 DEF IInv

(* Every step keeps the inductive invariant.                               *)
LEMMA NextIInv == ServiceAssumption /\ IInv /\ [Next]_vars => IInv'
<1> SUFFICES ASSUME ServiceAssumption, IInv, [Next]_vars PROVE IInv'
  OBVIOUS
<1> USE DEF IInv
<1>1. CASE UNCHANGED vars
  BY <1>1 DEF vars, MemoBounded, Listed, Waiting
<1>2. CASE Tick
  BY <1>2 DEF Tick, MemoBounded, Listed, Waiting
<1>3. ASSUME NEW c \in Calls, NEW t \in Tables, MemoHit(c, t)
      PROVE  IInv'
  <2>1. /\ t \in DOMAIN memo
        /\ order' = Used(t)
        /\ Set(c, [pc |-> "answered", table |-> t, at |-> memo[t].at])
        /\ memo' = memo
    BY <1>3 DEF MemoHit, Valid
  <2>2. /\ Used(t) \in Seq(Tables)
        /\ Len(Used(t)) = Len(order)
        /\ \A u \in DOMAIN memo \union {t} : \E i \in 1 .. Len(Used(t)) : Used(t)[i] = u
    BY <2>1, UsedFacts
  <2>3. MemoBounded'
    BY <2>1, <2>2 DEF MemoBounded
  <2>4. Listed'
    BY <2>1, <2>2 DEF Listed
  <2>5. Waiting'
    BY <2>1 DEF Waiting, Set
  <2> QED
    BY <2>1, <2>2, <2>3, <2>4, <2>5
<1>4. ASSUME NEW c \in Calls, NEW t \in Tables, MemoMissCacheHit(c, t)
      PROVE  IInv'
  BY <1>4, MemoizeKeeps DEF MemoMissCacheHit
<1>5. ASSUME NEW c \in Calls, NEW t \in Tables, MemoMissCacheMiss(c, t)
      PROVE  IInv'
  BY <1>5 DEF MemoMissCacheMiss, MemoBounded, Listed, Waiting, Set
<1>6. ASSUME NEW c \in Calls, NEW f \in Flights, ReadSchedule(c, f)
      PROVE  IInv'
  BY <1>6 DEF ReadSchedule, MemoBounded, Listed, Waiting
<1>7. ASSUME NEW c \in Calls, NEW f \in Flights, Resume(c, f)
      PROVE  IInv'
  <2>1. CASE UNCHANGED <<memo, order, request>>
    BY <2>1 DEF MemoBounded, Listed, Waiting
  <2>2. CASE request[c].pc = "waiting" /\ Memoize(c, request[c].table, task'[c].at)
    <3>1. request[c].table \in Tables
      BY <2>2 DEF Waiting
    <3> QED
      BY <2>2, <3>1, MemoizeKeeps
  <2> QED
    BY <1>7, <2>1, <2>2 DEF Resume
<1>8. ASSUME NEW c \in Calls, NEW f \in Flights, Fail(c, f)
      PROVE  IInv'
  BY <1>8 DEF Fail, MemoBounded, Listed, Waiting, Set
<1> QED
  BY <1>1, <1>2, <1>3, <1>4, <1>5, <1>6, <1>7, <1>8, AskedTables DEF Next

(* The inductive invariant holds in every reachable state.                 *)
THEOREM Invariant == Spec => []IInv
<1> QED
  BY ServiceAssumption, InitIInv, NextIInv, PTL DEF Spec

(* The single popitem of _rpi_table (an `if', not a `while') keeps the     *)
(* memo within its cap whatever the interleaving of the calls that store   *)
(* into it: each of them adds at most one table.                           *)
THEOREM MemoStaysBounded == Spec => []MemoBounded
<1>1. IInv => MemoBounded
  BY DEF IInv
<1> QED
  BY <1>1, Invariant, PTL

-----------------------------------------------------------------------------
(* That the memo over the cache implements the promise of FreshData.  What *)
(* the cache guarantees is taken from CachingAdapter_proofs, by instance.  *)
Schedules == INSTANCE CachingAdapter_proofs WITH Keys <- Flights, LiveKeys <- Flights,
                                                 TtlSeconds <- LiveTtlSeconds

LEMMA SchedulesAssumption == Schedules!CacheAssumption
BY ServiceAssumption DEF ServiceAssumption, Schedules!CacheAssumption

\* The expiry of a table bounds the age of the schedule that it was computed from.
TableAge == \A t \in DOMAIN memo :
  /\ memo[t].at \in 0 .. now /\ memo[t].expiry \in Nat
  /\ memo[t].expiry <= memo[t].at + RpiTtlSeconds + LiveTtlSeconds + MaxTransit - 1

\* A call that waits for a table is in the fetch of its schedule.
InFetch == /\ request = [c \in Calls |-> request[c]]
           /\ \A c \in Calls : request[c].pc = "waiting" =>
                /\ request[c].table \in Tables /\ task[c].pc = "fetching"

(* The inductive invariant of the refinement.                              *)
AgeInv == Schedules!IInv /\ TableAge /\ InFetch

\* The cache is the same module, whether by RpiService or by the proofs about it.
LEMMA SameCache ==
  ASSUME NEW c, NEW f
  PROVE  /\ Cache!Hit(c, f) => Schedules!Hit(c, f)
         /\ Cache!Miss(c, f) => Schedules!Miss(c, f)
         /\ Cache!Fill(c, f) => Schedules!Fill(c, f)
         /\ Cache!Raise(c, f) => Schedules!Raise(c, f)
         /\ Cache!Tick => Schedules!Tick
BY DEF Cache!Hit, Schedules!Hit, Cache!Free, Schedules!Free, Cache!Valid, Schedules!Valid,
       Cache!Return, Schedules!Return, Cache!Miss, Schedules!Miss, Cache!Drop, Schedules!Drop,
       Cache!Del, Schedules!Del, Cache!Fill, Schedules!Fill, Cache!Fetching, Schedules!Fetching,
       Cache!Store, Schedules!Store, Cache!Put, Schedules!Put, Cache!Expiry, Schedules!Expiry,
       Cache!Ttl, Schedules!Ttl, Cache!Raise, Schedules!Raise, Cache!Tick, Schedules!Tick

LEMMA FreeIsReady ==
  ASSUME AgeInv, NEW c \in Calls, Free(c)
  PROVE  request[c].pc # "waiting"
BY DEF AgeInv, InFetch, Free, Cache!Free

\* A step of the service is a step of the cache, or leaves it alone.
LEMMA SchedulesStep ==
  ASSUME [Next]_vars
  PROVE  Schedules!Next \/ UNCHANGED cachevars
<1>1. CASE Tick
  BY <1>1, SameCache DEF Tick, Schedules!Next
<1>2. ASSUME NEW c \in Calls, NEW t \in Tables,
             MemoHit(c, t) \/ MemoMissCacheHit(c, t) \/ MemoMissCacheMiss(c, t)
      PROVE  Schedules!Next \/ UNCHANGED cachevars
  <2>1. FlightOf(t) \in Flights
    BY DEF Tables, FlightOf
  <2>2. Schedules!Hit(c, FlightOf(t)) \/ Schedules!Miss(c, FlightOf(t)) \/ UNCHANGED cachevars
    BY <1>2, SameCache DEF MemoHit, MemoMissCacheHit, MemoMissCacheMiss
  <2> QED
    BY <2>1, <2>2 DEF Schedules!Next
<1>3. ASSUME NEW c \in Calls, NEW f \in Flights,
             ReadSchedule(c, f) \/ Resume(c, f) \/ Fail(c, f)
      PROVE  Schedules!Next
  <2>1. Schedules!Hit(c, f) \/ Schedules!Miss(c, f) \/ Schedules!Await(c, f)
    BY <1>3, SameCache DEF ReadSchedule, Resume, Fail, Schedules!Await
  <2> QED
    BY <2>1 DEF Schedules!Next
<1>4. CASE UNCHANGED vars
  BY <1>4 DEF vars
<1> QED
  BY <1>1, <1>2, <1>3, <1>4, AskedTables DEF Next

LEMMA SchedulesKeep ==
  ASSUME AgeInv, [Next]_vars
  PROVE  Schedules!IInv'
<1>1. [Schedules!Next]_(Schedules!vars)
  BY SchedulesStep DEF cachevars, Schedules!vars
<1> QED
  BY <1>1, SchedulesAssumption, Schedules!NextIInv DEF AgeInv

\* How old a schedule is when a table is computed from it.
Young(at) == at \in 0 .. now /\ now <= at + LiveTtlSeconds + MaxTransit - 1

LEMMA HitIsYoung ==
  ASSUME AgeInv, NEW c, NEW f \in Flights, Cache!Hit(c, f)
  PROVE  Young(cache[f].at)
<1>1. f \in DOMAIN cache /\ now < cache[f].expiry
  BY SameCache DEF Schedules!Hit, Schedules!Valid
<1>2. /\ now \in Nat /\ cache[f].at \in Nat /\ cache[f].expiry \in Nat /\ cache[f].at <= now
      /\ cache[f].expiry <= cache[f].at + MaxTransit + LiveTtlSeconds
  BY <1>1 DEF AgeInv, Schedules!IInv, Schedules!TypeOK, Schedules!Entry, Schedules!EntryAge, Schedules!Ttl
<1> QED
  BY <1>1, <1>2, ServiceAssumption DEF Young, ServiceAssumption

LEMMA FilledIsYoung ==
  ASSUME AgeInv, NEW c \in Calls, NEW f \in Flights, Cache!Fill(c, f)
  PROVE  Young(task'[c].at) /\ now' = now
<1>1. Schedules!Fill(c, f)
  BY SameCache
<1>2. PICK at \in task[c].began .. now : now <= at + MaxTransit /\ Schedules!Store(c, f, at)
  BY <1>1 DEF Schedules!Fill
<1>3. now \in Nat /\ task[c].began \in Nat /\ task \in [Calls -> Schedules!Task]
  BY <1>1 DEF AgeInv, Schedules!IInv, Schedules!TypeOK, Schedules!Task, Schedules!Fill, Schedules!Fetching
<1>4. task'[c].at = at /\ now' = now
  BY <1>2, <1>3 DEF Schedules!Store, Schedules!Return
<1>5. MaxTransit \in Nat /\ LiveTtlSeconds \in Nat /\ LiveTtlSeconds > 0
  BY ServiceAssumption DEF ServiceAssumption
<1>6. Young(at)
  BY <1>2, <1>3, <1>5 DEF Young
<1> QED
  BY <1>4, <1>6

\* A table that is memoized expires one lifetime after its schedule would have.
LEMMA MemoizeAge ==
  ASSUME AgeInv, NEW c \in Calls, NEW t, NEW at, Young(at), Memoize(c, t, at), now' = now
  PROVE  TableAge'
<1>1. /\ now \in Nat /\ RpiTtlSeconds \in Nat /\ LiveTtlSeconds \in Nat /\ LiveTtlSeconds > 0
      /\ MaxTransit \in Nat
  BY ServiceAssumption DEF ServiceAssumption, AgeInv, Schedules!IInv, Schedules!TypeOK
<1> DEFINE new == [expiry |-> now + RpiTtlSeconds, at |-> at]
<1>2. /\ new.at \in 0 .. now /\ new.expiry \in Nat
      /\ new.expiry <= new.at + RpiTtlSeconds + LiveTtlSeconds + MaxTransit - 1
  BY <1>1 DEF Young
<1> HIDE DEF new
<1>3. memo' = Put(memo, t, new) \/ memo' = Del(Put(memo, t, new), Head(Used(t)))
  BY DEF Memoize, new
<1>4. ASSUME NEW u \in DOMAIN memo'
      PROVE  memo'[u] = new \/ (u \in DOMAIN memo /\ memo'[u] = memo[u])
  <2> DEFINE stored == Put(memo, t, new)
  <2>1. \A x \in DOMAIN stored : stored[x] = new \/ (x \in DOMAIN memo /\ stored[x] = memo[x])
    BY DEF Put
  <2> HIDE DEF stored
  <2>2. u \in DOMAIN stored /\ memo'[u] = stored[u]
    BY <1>3, <1>4 DEF Del, stored
  <2> QED
    BY <2>1, <2>2
<1> QED
  BY <1>1, <1>2, <1>4 DEF TableAge, AgeInv

\* The call that a step is of, and the others.
LEMMA SetMoves ==
  ASSUME InFetch, NEW c \in Calls, NEW v, Set(c, v)
  PROVE  /\ request' = [d \in Calls |-> request'[d]] /\ request'[c] = v
         /\ \A d \in Calls \ {c} : request'[d] = request[d]
         /\ [d \in Calls |-> RequestOf(request'[d])]
              = [[d \in Calls |-> RequestOf(request[d])] EXCEPT ![c] = RequestOf(v)]
BY DEF Set, InFetch
\* A step of one call leaves the fetches of the others alone.
LEMMA OthersFetch ==
  ASSUME AgeInv, NEW c \in Calls, NEW f \in Flights,
         Cache!Hit(c, f) \/ Cache!Miss(c, f) \/ Cache!Fill(c, f) \/ Cache!Raise(c, f)
  PROVE  /\ \A d \in Calls \ {c} : task'[d] = task[d]
         /\ now' = now
         /\ Cache!Hit(c, f) => Free(c)
         /\ Cache!Miss(c, f) => Free(c) /\ task'[c].pc = "fetching"
<1>1. task \in [Calls -> Schedules!Task]
  BY DEF AgeInv, Schedules!IInv, Schedules!TypeOK
<1>2. \E v : task' = [task EXCEPT ![c] = v]
  BY DEF Cache!Hit, Cache!Miss, Cache!Fill, Cache!Raise, Cache!Store, Cache!Return
<1>3. now' = now
  BY DEF Cache!Hit, Cache!Miss, Cache!Fill, Cache!Raise, Cache!Store
<1>4. Cache!Hit(c, f) => Free(c)
  BY DEF Cache!Hit, Free
<1>5. Cache!Miss(c, f) => Free(c) /\ task'[c].pc = "fetching"
  BY <1>1 DEF Cache!Miss, Free
<1> QED
  BY <1>1, <1>2, <1>3, <1>4, <1>5

\* Who waits after a step of one call.
LEMMA SetInFetch ==
  ASSUME AgeInv, NEW c \in Calls, NEW v, Set(c, v),
         v.pc = "waiting" => v.table \in Tables /\ task'[c].pc = "fetching",
         \A d \in Calls \ {c} : task'[d] = task[d]
  PROVE  InFetch'
<1>1. InFetch
  BY DEF AgeInv
<1>2. /\ request' = [d \in Calls |-> request'[d]] /\ request'[c] = v
      /\ \A d \in Calls \ {c} : request'[d] = request[d]
  BY <1>1, SetMoves
<1>3. ASSUME NEW d \in Calls, request'[d].pc = "waiting"
      PROVE  request'[d].table \in Tables /\ task'[d].pc = "fetching"
  <2>1. CASE d = c
    BY <1>2, <1>3, <2>1
  <2>2. CASE d # c
    BY <1>1, <1>2, <1>3, <2>2 DEF InFetch
  <2> QED
    BY <2>1, <2>2
<1> QED
  BY <1>2, <1>3 DEF InFetch

(* Nothing is memoized at first, and nobody waits.                         *)
LEMMA InitAgeInv == Init => AgeInv
<1> SUFFICES ASSUME Init PROVE AgeInv
  OBVIOUS
<1>1. Schedules!Init
  BY DEF Init, Cache!Init, Schedules!Init, Cache!EmptyDict, Schedules!EmptyDict
<1>2. Schedules!IInv
  BY <1>1, SchedulesAssumption, Schedules!InitIInv
<1>3. TableAge
  BY DEF Init, TableAge, EmptyDict
<1>4. InFetch
  BY DEF Init, InFetch
<1> QED
  BY <1>2, <1>3, <1>4 DEF AgeInv

(* Every step keeps the invariant of the refinement.                       *)
LEMMA NextAgeInv == AgeInv /\ [Next]_vars => AgeInv'
<1> SUFFICES ASSUME AgeInv, [Next]_vars PROVE TableAge' /\ InFetch'
  BY SchedulesKeep DEF AgeInv
<1>0. /\ TableAge /\ InFetch /\ now \in Nat
      /\ RpiTtlSeconds \in Nat /\ LiveTtlSeconds \in Nat /\ MaxTransit \in Nat
  BY ServiceAssumption DEF ServiceAssumption, AgeInv, Schedules!IInv, Schedules!TypeOK
<1>1. CASE UNCHANGED vars
  BY <1>0, <1>1 DEF vars, cachevars, TableAge, InFetch
<1>2. CASE Tick
  <2>1. now' = now + 1 /\ UNCHANGED <<task, memo, request>>
    BY <1>2 DEF Tick, Cache!Tick
  <2> QED
    BY <1>0, <2>1 DEF TableAge, InFetch
<1>3. ASSUME NEW c \in Calls, NEW t \in Tables, MemoHit(c, t)
      PROVE  TableAge' /\ InFetch'
  <2>1. /\ UNCHANGED <<now, task, memo>>
        /\ Set(c, [pc |-> "answered", table |-> t, at |-> memo[t].at])
    BY <1>3 DEF MemoHit, cachevars
  <2>2. PICK v : v = [pc |-> "answered", table |-> t, at |-> memo[t].at]
    OBVIOUS
  <2>3. Set(c, v) /\ v.pc # "waiting"
    BY <2>1, <2>2
  <2>4. InFetch'
    BY <2>1, <2>3, SetInFetch
  <2> QED
    BY <1>0, <2>1, <2>4 DEF TableAge
<1>4. ASSUME NEW c \in Calls, NEW t \in Tables, MemoMissCacheHit(c, t)
      PROVE  TableAge' /\ InFetch'
  <2>0. FlightOf(t) \in Flights
    BY DEF Tables, FlightOf
  <2> DEFINE at == cache[FlightOf(t)].at
  <2>1. Cache!Hit(c, FlightOf(t)) /\ Memoize(c, t, at)
    BY <1>4 DEF MemoMissCacheHit
  <2>2. Young(at) /\ now' = now /\ \A d \in Calls \ {c} : task'[d] = task[d]
    BY <2>0, <2>1, HitIsYoung, OthersFetch
  <2>3. Set(c, [pc |-> "answered", table |-> t, at |-> at])
    BY <2>1 DEF Memoize
  <2> HIDE DEF at
  <2>4. TableAge'
    BY <2>1, <2>2, MemoizeAge
  <2>a. PICK v : v = [pc |-> "answered", table |-> t, at |-> at]
    OBVIOUS
  <2>b. Set(c, v) /\ v.pc # "waiting"
    BY <2>3, <2>a
  <2>5. InFetch'
    BY <2>2, <2>b, SetInFetch
  <2> QED
    BY <2>4, <2>5
<1>5. ASSUME NEW c \in Calls, NEW t \in Tables, MemoMissCacheMiss(c, t)
      PROVE  TableAge' /\ InFetch'
  <2>0. FlightOf(t) \in Flights
    BY DEF Tables, FlightOf
  <2>1. /\ Cache!Miss(c, FlightOf(t)) /\ memo' = memo
        /\ Set(c, [pc |-> "waiting", table |-> t])
    BY <1>5 DEF MemoMissCacheMiss
  <2>2. /\ now' = now /\ \A d \in Calls \ {c} : task'[d] = task[d]
        /\ task'[c].pc = "fetching"
    BY <2>0, <2>1, OthersFetch
  <2>3. InFetch'
    BY <2>1, <2>2, SetInFetch
  <2> QED
    BY <1>0, <2>1, <2>2, <2>3 DEF TableAge
<1>6. ASSUME NEW c \in Calls, NEW f \in Flights, ReadSchedule(c, f)
      PROVE  TableAge' /\ InFetch'
  <2>1. (Cache!Hit(c, f) \/ Cache!Miss(c, f)) /\ UNCHANGED <<memo, request>>
    BY <1>6 DEF ReadSchedule
  <2>2. now' = now /\ (\A d \in Calls \ {c} : task'[d] = task[d]) /\ Free(c)
    BY <2>1, OthersFetch
  <2>3. request[c].pc # "waiting"
    BY <2>2, FreeIsReady
  <2> QED
    BY <1>0, <2>1, <2>2, <2>3 DEF TableAge, InFetch
<1>7. ASSUME NEW c \in Calls, NEW f \in Flights, Resume(c, f)
      PROVE  TableAge' /\ InFetch'
  <2>1. /\ Cache!Fill(c, f)
        /\ now' = now /\ \A d \in Calls \ {c} : task'[d] = task[d]
    BY <1>7, OthersFetch DEF Resume
  <2>2. CASE request[c].pc # "waiting" /\ UNCHANGED <<memo, order, request>>
    BY <1>0, <2>1, <2>2 DEF TableAge, InFetch
  <2>3. CASE request[c].pc = "waiting" /\ Memoize(c, request[c].table, task'[c].at)
    <3>1. Young(task'[c].at)
      BY <2>1, FilledIsYoung
    <3>2. PICK at : at = task'[c].at
      OBVIOUS
    <3>3. PICK t \in Tables : t = request[c].table
      BY <1>0, <2>3 DEF InFetch
    <3>4. Young(at) /\ Memoize(c, t, at)
      BY <2>3, <3>1, <3>2, <3>3
    <3>5. Set(c, [pc |-> "answered", table |-> t, at |-> at])
      BY <3>4 DEF Memoize
    <3>6. TableAge'
      BY <2>1, <3>4, MemoizeAge
    <3>7. InFetch'
      BY <2>1, <3>5, SetInFetch
    <3> QED
      BY <3>6, <3>7
  <2> QED
    BY <1>7, <2>2, <2>3 DEF Resume
<1>8. ASSUME NEW c \in Calls, NEW f \in Flights, Fail(c, f)
      PROVE  TableAge' /\ InFetch'
  <2>1. Cache!Raise(c, f) /\ memo' = memo
    BY <1>8 DEF Fail
  <2>2. now' = now /\ \A d \in Calls \ {c} : task'[d] = task[d]
    BY <2>1, OthersFetch
  <2>3. CASE request[c].pc # "waiting" /\ UNCHANGED request
    BY <1>0, <2>1, <2>2, <2>3 DEF TableAge, InFetch
  <2>4. CASE Set(c, [pc |-> "failed", table |-> request[c].table])
    <3>1. PICK v : v = [pc |-> "failed", table |-> request[c].table]
      OBVIOUS
    <3>2. Set(c, v) /\ v.pc # "waiting"
      BY <2>4, <3>1
    <3>3. InFetch'
      BY <2>2, <3>2, SetInFetch
    <3> QED
      BY <1>0, <2>1, <2>2, <3>3 DEF TableAge
  <2> QED
    BY <1>8, <2>3, <2>4 DEF Fail
<1> QED
  BY <1>1, <1>2, <1>3, <1>4, <1>5, <1>6, <1>7, <1>8, AskedTables DEF Next

-----------------------------------------------------------------------------
\* What a call promises its caller in each phase.
LEMMA RequestOfCases ==
  ASSUME NEW t, NEW at
  PROVE  /\ RequestOf([pc |-> "waiting", table |-> t]) = [pc |-> "pending", key |-> t]
         /\ RequestOf([pc |-> "answered", table |-> t, at |-> at])
              = [pc |-> "answered", key |-> t, at |-> at]
         /\ RequestOf([pc |-> "failed", table |-> t]) = [pc |-> "failed", key |-> t]
BY DEF RequestOf

\* The step of the promise that a step of one call is.
LEMMA Answers ==
  ASSUME AgeInv, NEW c \in Calls, NEW t \in Tables, NEW at \in 0 .. now,
         now < at + RpiTtlSeconds + LiveTtlSeconds + MaxTransit - 1,
         Set(c, [pc |-> "answered", table |-> t, at |-> at]), now' = now,
         Free(c) \/ (request[c].pc = "waiting" /\ request[c].table = t)
  PROVE  Promise!Answer(c, t)
<1> DEFINE call == [d \in Calls |-> RequestOf(request[d])]
           maxAge == [x \in Tables |-> RpiTtlSeconds + LiveTtlSeconds + MaxTransit - 1]
<1>1. PICK v : v = [pc |-> "answered", table |-> t, at |-> at]
  OBVIOUS
<1>2. RequestOf(v) = [pc |-> "answered", key |-> t, at |-> at]
  BY <1>1, RequestOfCases
<1>3. call' = [call EXCEPT ![c] = RequestOf(v)]
  BY <1>1, SetMoves DEF AgeInv
<1>4. call[c].pc \in {"idle", "answered", "failed"} \/ call[c] = [pc |-> "pending", key |-> t]
  <2>1. CASE Free(c)
    <3>1. request[c].pc # "waiting"
      BY <2>1, FreeIsReady
    <3> QED
      BY <3>1 DEF RequestOf
  <2>2. CASE request[c].pc = "waiting" /\ request[c].table = t
    BY <2>2 DEF RequestOf
  <2> QED
    BY <2>1, <2>2
<1>5. at \in 0 .. now /\ now < at + maxAge[t]
  BY ServiceAssumption DEF ServiceAssumption, AgeInv, Schedules!IInv, Schedules!TypeOK
<1> QED
  BY <1>2, <1>3, <1>4, <1>5 DEF Promise!Answer, Promise!Ready

(* Each step of memo and cache is a step of the promise, or leaves it alone.*)
LEMMA NextPromise == AgeInv /\ [Next]_vars => [Promise!Next]_(Promise!vars)
<1> SUFFICES ASSUME AgeInv, [Next]_vars PROVE [Promise!Next]_(Promise!vars)
  OBVIOUS
<1> DEFINE call == [d \in Calls |-> RequestOf(request[d])]
<1>0. /\ TableAge /\ InFetch /\ now \in Nat
      /\ RpiTtlSeconds \in Nat /\ RpiTtlSeconds > 0
      /\ LiveTtlSeconds \in Nat /\ MaxTransit \in Nat
  BY ServiceAssumption DEF ServiceAssumption, AgeInv, Schedules!IInv, Schedules!TypeOK
<1>a. ASSUME NEW at, Young(at)
      PROVE  at \in 0 .. now /\ now < at + RpiTtlSeconds + LiveTtlSeconds + MaxTransit - 1
  BY <1>0, <1>a DEF Young
<1>1. CASE UNCHANGED vars
  BY <1>1 DEF vars, cachevars, Promise!vars
<1>2. CASE Tick
  BY <1>2 DEF Tick, Cache!Tick, Promise!Next, Promise!Tick
<1>3. ASSUME NEW c \in Calls, NEW t \in Tables, MemoHit(c, t)
      PROVE  Promise!Answer(c, t)
  <2>1. /\ t \in DOMAIN memo /\ now < memo[t].expiry /\ Free(c) /\ now' = now
        /\ Set(c, [pc |-> "answered", table |-> t, at |-> memo[t].at])
    BY <1>3 DEF MemoHit, Valid, cachevars
  <2>2. PICK at : at = memo[t].at
    OBVIOUS
  <2>3. /\ at \in 0 .. now
        /\ now < at + RpiTtlSeconds + LiveTtlSeconds + MaxTransit - 1
    BY <1>0, <2>1, <2>2 DEF TableAge
  <2>4. Set(c, [pc |-> "answered", table |-> t, at |-> at])
    BY <2>1, <2>2
  <2> QED
    BY <2>1, <2>3, <2>4, Answers
<1>4. ASSUME NEW c \in Calls, NEW t \in Tables, MemoMissCacheHit(c, t)
      PROVE  Promise!Answer(c, t)
  <2>0. FlightOf(t) \in Flights
    BY DEF Tables, FlightOf
  <2>1. Cache!Hit(c, FlightOf(t)) /\ Memoize(c, t, cache[FlightOf(t)].at) /\ Free(c)
    BY <1>4 DEF MemoMissCacheHit
  <2>2. PICK at : at = cache[FlightOf(t)].at
    OBVIOUS
  <2>3. Young(at) /\ now' = now
    BY <2>0, <2>1, <2>2, HitIsYoung, OthersFetch
  <2>4. Set(c, [pc |-> "answered", table |-> t, at |-> at])
    BY <2>1, <2>2 DEF Memoize
  <2> QED
    BY <1>a, <2>1, <2>3, <2>4, Answers
<1>5. ASSUME NEW c \in Calls, NEW t \in Tables, MemoMissCacheMiss(c, t)
      PROVE  Promise!Ask(c, t)
  <2>0. FlightOf(t) \in Flights
    BY DEF Tables, FlightOf
  <2>1. /\ Cache!Miss(c, FlightOf(t)) /\ Free(c)
        /\ Set(c, [pc |-> "waiting", table |-> t])
    BY <1>5 DEF MemoMissCacheMiss
  <2>2. PICK v : v = [pc |-> "waiting", table |-> t]
    OBVIOUS
  <2>3. RequestOf(v) = [pc |-> "pending", key |-> t] /\ Set(c, v)
    BY <2>1, <2>2, RequestOfCases
  <2>4. call' = [call EXCEPT ![c] = RequestOf(v)]
    BY <2>3, SetMoves DEF AgeInv
  <2>5. request[c].pc # "waiting"
    BY <2>1, FreeIsReady
  <2>6. call[c].pc \in {"idle", "answered", "failed"}
    BY <2>5 DEF RequestOf
  <2>7. now' = now
    BY <2>0, <2>1, OthersFetch
  <2> QED
    BY <2>3, <2>4, <2>6, <2>7 DEF Promise!Ask, Promise!Ready
<1>6. ASSUME NEW c \in Calls, NEW f \in Flights, ReadSchedule(c, f)
      PROVE  UNCHANGED Promise!vars
  <2>1. now' = now /\ request' = request
    BY <1>6, OthersFetch DEF ReadSchedule
  <2> QED
    BY <2>1 DEF Promise!vars
<1>7. ASSUME NEW c \in Calls, NEW f \in Flights, Resume(c, f)
      PROVE  UNCHANGED Promise!vars \/ \E t \in Tables : Promise!Answer(c, t)
  <2>1. Cache!Fill(c, f) /\ now' = now
    BY <1>7, OthersFetch DEF Resume
  <2>2. CASE UNCHANGED request
    BY <2>1, <2>2 DEF Promise!vars
  <2>3. CASE request[c].pc = "waiting" /\ Memoize(c, request[c].table, task'[c].at)
    <3>1. PICK at : at = task'[c].at
      OBVIOUS
    <3>2. Young(at)
      BY <2>1, <3>1, FilledIsYoung
    <3>3. PICK t \in Tables : t = request[c].table
      BY <1>0, <2>3 DEF InFetch
    <3>4. Set(c, [pc |-> "answered", table |-> t, at |-> at])
      BY <2>3, <3>1, <3>3 DEF Memoize
    <3>5. request[c].pc = "waiting" /\ request[c].table = t
      BY <2>3, <3>3
    <3> QED
      BY <1>a, <2>1, <3>2, <3>4, <3>5, Answers
  <2> QED
    BY <1>7, <2>2, <2>3 DEF Resume
<1>8. ASSUME NEW c \in Calls, NEW f \in Flights, Fail(c, f)
      PROVE  UNCHANGED Promise!vars \/ \E t \in Tables : Promise!Fail(c, t)
  <2>1. Cache!Raise(c, f) /\ now' = now
    BY <1>8, OthersFetch DEF Fail
  <2>2. CASE UNCHANGED request
    BY <2>1, <2>2 DEF Promise!vars
  <2>3. CASE request[c].pc = "waiting" /\ Set(c, [pc |-> "failed", table |-> request[c].table])
    <3>1. PICK t \in Tables : t = request[c].table
      BY <1>0, <2>3 DEF InFetch
    <3>2. PICK v : v = [pc |-> "failed", table |-> t]
      OBVIOUS
    <3>3. RequestOf(v) = [pc |-> "failed", key |-> t] /\ Set(c, v)
      BY <2>3, <3>1, <3>2, RequestOfCases
    <3>4. call' = [call EXCEPT ![c] = RequestOf(v)]
      BY <3>3, SetMoves DEF AgeInv
    <3>5. call[c] = [pc |-> "pending", key |-> t]
      BY <2>3, <3>1 DEF RequestOf
    <3>6. Promise!Fail(c, t)
      BY <2>1, <3>3, <3>4, <3>5 DEF Promise!Fail
    <3> QED
      BY <3>6
  <2> QED
    BY <1>8, <2>2, <2>3 DEF Fail
<1> QED
  BY <1>1, <1>2, <1>3, <1>4, <1>5, <1>6, <1>7, <1>8, AskedTables DEF Next, Promise!Next

(* The initial state of the service is that of the promise.                *)
LEMMA InitPromise == Init => Promise!Init
  BY DEF Init, Cache!Init, Promise!Init, RequestOf

(* The memo over the cache implements the promise of FreshData: whatever   *)
(* the order of hits, misses, stores, evictions and failures of any number *)
(* of calls, a table is computed from a schedule that is younger than the  *)
(* two lifetimes and the transit bound together.                           *)
THEOREM ImplementsPromise == Spec => KeepsPromise
<1>1. Spec => []AgeInv /\ [][Next]_vars /\ Init
  BY InitAgeInv, NextAgeInv, PTL DEF Spec
<1> QED
  BY <1>1, InitPromise, NextPromise, PTL DEF KeepsPromise, Promise!Spec

-----------------------------------------------------------------------------
\* No table stands twice in the order.
Once(s) == \A i, j \in 1 .. Len(s) : s[i] = s[j] => i = j

\* The order lists the keys of the memo, once each.
LEMMA TypeIsListed ==
  ASSUME TypeOK
  PROVE  /\ order \in Seq(Tables) /\ Once(order) /\ Listed
         /\ \A i \in 1 .. Len(order) : order[i] \in DOMAIN memo
<1>1. \A i \in 1 .. Len(order) : order[i] \in Tables
  BY ElementOfSeq DEF TypeOK
<1> QED BY <1>1 DEF TypeOK, Once, Listed

(* A use of a table lists it once, and nothing that was not listed.        *)
LEMMA UsedOnce ==
  ASSUME TypeOK, NEW t \in Tables
  PROVE  /\ Once(Used(t))
         /\ \A i \in 1 .. Len(Used(t)) : Used(t)[i] \in DOMAIN memo \union {t}
<1>0. /\ Len(order) \in Nat /\ order \in Seq(Tables) /\ Once(order) /\ Listed
      /\ \A i \in 1 .. Len(order) : order[i] \in DOMAIN memo
  BY LenProperties, TypeIsListed
<1>1. CASE t \notin DOMAIN memo
  <2>1. Used(t) = Append(order, t)
    BY <1>1 DEF Used
  <2>2. /\ Len(Append(order, t)) = Len(order) + 1
        /\ \A i \in 1 .. Len(order) : Append(order, t)[i] = order[i]
        /\ Append(order, t)[Len(order) + 1] = t
    BY <1>0, AppendProperties
  <2>3. \A i \in 1 .. Len(order) : order[i] # t
    BY <1>0, <1>1
  <2> HIDE DEF Used
  <2> QED BY <1>0, <2>1, <2>2, <2>3 DEF Once
<1>2. CASE t \in DOMAIN memo
  <2> DEFINE p == Position(t)
             rest == RemoveAt(order, p)
  <2>1. p \in 1 .. Len(order) /\ order[p] = t
    BY <1>0, <1>2 DEF Listed, Position
  <2>2. Used(t) = Append(rest, t)
    BY <1>2 DEF Used
  <2>3. /\ rest \in Seq(Tables) /\ Len(rest) = Len(order) - 1
        /\ \A k \in 1 .. Len(order) - 1 : rest[k] = IF k < p THEN order[k] ELSE order[k + 1]
    BY <1>0, <2>1, RemoveAtPlaces
  <2> HIDE DEF p, rest
  <2>4. /\ Len(Append(rest, t)) = Len(order)
        /\ \A i \in 1 .. Len(order) - 1 : Append(rest, t)[i] = rest[i]
        /\ Append(rest, t)[Len(order)] = t
    BY <1>0, <2>3, AppendProperties
  <2>5. \A k \in 1 .. Len(order) - 1 : rest[k] # t /\ rest[k] \in DOMAIN memo
    <3> TAKE k \in 1 .. Len(order) - 1
    <3>1. k \in 1 .. Len(order) /\ k + 1 \in 1 .. Len(order)
      BY <1>0
    <3>2. CASE k < p
      BY <1>0, <2>1, <2>3, <3>1, <3>2 DEF Once
    <3>3. CASE ~(k < p)
      <4>1. k + 1 # p
        BY <1>0, <2>1, <3>3
      <4> QED BY <1>0, <2>1, <2>3, <3>1, <3>3, <4>1 DEF Once
    <3> QED BY <3>2, <3>3
  <2>6. ASSUME NEW k \in 1 .. Len(order) - 1, NEW l \in 1 .. Len(order) - 1, rest[k] = rest[l]
        PROVE  k = l
    <3> DEFINE place(x) == IF x < p THEN x ELSE x + 1
    <3>1. place(k) \in 1 .. Len(order) /\ place(l) \in 1 .. Len(order)
      BY <1>0, <2>1
    <3>2. rest[k] = order[place(k)] /\ rest[l] = order[place(l)]
      BY <2>3
    <3>3. place(k) = place(l)
      BY <1>0, <2>6, <3>1, <3>2 DEF Once
    <3> QED BY <1>0, <2>1, <3>3
  <2>7. Once(Append(rest, t))
    BY <1>0, <2>4, <2>5, <2>6 DEF Once
  <2> QED BY <1>0, <1>2, <2>2, <2>4, <2>5, <2>7
<1> QED BY <1>1, <1>2

(* Storing a table keeps the two halves of the OrderedDict together.       *)
LEMMA MemoizeTypes ==
  ASSUME ServiceAssumption, TypeOK, now \in Nat,
         NEW c \in Calls, NEW t \in Tables, NEW at \in Nat, Memoize(c, t, at)
  PROVE  TypeOK'
<1> DEFINE new == [expiry |-> now + RpiTtlSeconds, at |-> at]
           stored == Put(memo, t, new)
           used == Used(t)
<1>1. new \in Entry
  BY DEF Entry, ServiceAssumption
<1> HIDE DEF new
<1>2. /\ DOMAIN stored = DOMAIN memo \union {t}
      /\ \A u \in DOMAIN stored : stored[u] \in Entry
  BY <1>1 DEF Put, TypeOK
<1>3. /\ used \in Seq(Tables) /\ Len(used) \in Nat /\ Len(used) >= 1
      /\ \A u \in DOMAIN memo \union {t} : \E i \in 1 .. Len(used) : used[i] = u
  BY TypeIsListed, UsedFacts, LenProperties
<1>4. Once(used) /\ \A i \in 1 .. Len(used) : used[i] \in DOMAIN memo \union {t}
  BY UsedOnce
<1>5. /\ Set(c, [pc |-> "answered", table |-> t, at |-> at])
      /\ \/ order' = used /\ memo' = stored
         \/ order' = Tail(used) /\ memo' = Del(stored, Head(used))
  BY DEF Memoize, new
<1> HIDE DEF stored, used
<1>6. request' \in [Calls -> Request]
  BY <1>5 DEF TypeOK, Set, Request
<1>7. DOMAIN stored \subseteq Tables
  BY <1>2 DEF TypeOK
<1>8. CASE order' = used /\ memo' = stored
  <2>1. \A u \in Tables : u \in DOMAIN memo' <=> \E i \in 1 .. Len(used) : used[i] = u
    BY <1>2, <1>3, <1>4, <1>8
  <2> QED BY <1>2, <1>3, <1>4, <1>6, <1>7, <1>8, <2>1 DEF TypeOK, Once
<1>9. CASE order' = Tail(used) /\ memo' = Del(stored, Head(used))
  <2>1. used # <<>> /\ Head(used) = used[1]
    BY <1>3
  <2>2. /\ Tail(used) \in Seq(Tables)
        /\ Len(Tail(used)) = Len(used) - 1
        /\ \A i \in 1 .. Len(Tail(used)) : Tail(used)[i] = used[i + 1]
    BY <1>3, <2>1, HeadTailProperties
  <2>3. /\ DOMAIN memo' = DOMAIN stored \ {used[1]}
        /\ \A u \in DOMAIN memo' : memo'[u] \in Entry
    BY <1>2, <1>9, <2>1 DEF Del
  <2>4. \A i \in 1 .. Len(Tail(used)) : i + 1 \in 1 .. Len(used) /\ i + 1 # 1
    BY <1>3, <2>2
  <2>5. Once(Tail(used))
    <3> SUFFICES ASSUME NEW i \in 1 .. Len(Tail(used)), NEW j \in 1 .. Len(Tail(used)),
                        Tail(used)[i] = Tail(used)[j]
                 PROVE  i = j
      BY DEF Once
    <3>1. i + 1 = j + 1
      BY <1>4, <2>2, <2>4 DEF Once
    <3> QED BY <3>1, <1>3, <2>2
  <2>6. ASSUME NEW u \in DOMAIN memo'
        PROVE  \E i \in 1 .. Len(Tail(used)) : Tail(used)[i] = u
    <3>1. PICK i \in 1 .. Len(used) : used[i] = u
      BY <1>2, <1>3, <2>3
    <3>2. i # 1
      BY <2>3, <3>1
    <3>3. i - 1 \in 1 .. Len(Tail(used)) /\ (i - 1) + 1 = i
      BY <1>3, <2>2, <3>2
    <3>4. Tail(used)[i - 1] = u
      BY <2>2, <3>1, <3>3
    <3> QED BY <3>3, <3>4
  <2>7. ASSUME NEW i \in 1 .. Len(Tail(used))
        PROVE  Tail(used)[i] \in DOMAIN memo'
    <3>1. used[i + 1] # used[1] /\ 1 \in 1 .. Len(used)
      BY <1>3, <1>4, <2>4 DEF Once
    <3> QED BY <1>2, <1>4, <2>2, <2>3, <2>4, <3>1
  <2>8. \A u \in Tables : u \in DOMAIN memo' <=> \E i \in 1 .. Len(Tail(used)) : Tail(used)[i] = u
    BY <2>6, <2>7
  <2> QED BY <1>6, <1>7, <1>9, <2>2, <2>3, <2>5, <2>8 DEF TypeOK, Once
<1> QED BY <1>5, <1>8, <1>9

(* At first there are no tables, and no order of them.                     *)
LEMMA InitTypes == Init => TypeOK
<1> SUFFICES ASSUME Init PROVE TypeOK
  OBVIOUS
<1>1. order \in Seq(Tables) /\ Len(order) = 0
  BY DEF Init
<1> QED BY <1>1 DEF Init, TypeOK, EmptyDict, Request

(* Every step keeps the types.                                             *)
LEMMA NextTypes == AgeInv /\ TypeOK /\ [Next]_vars => TypeOK'
<1> SUFFICES ASSUME AgeInv, TypeOK, [Next]_vars PROVE TypeOK'
  OBVIOUS
<1>0. now \in Nat /\ request \in [Calls -> Request] /\ ServiceAssumption
  BY ServiceAssumption DEF AgeInv, Schedules!IInv, Schedules!TypeOK, TypeOK
<1>a. ASSUME UNCHANGED <<memo, order>>, request' \in [Calls -> Request]
      PROVE  TypeOK'
  BY <1>a DEF TypeOK
<1>1. CASE UNCHANGED <<memo, order, request>>
  BY <1>0, <1>1, <1>a
<1>3. ASSUME NEW c \in Calls, NEW t \in Tables, MemoHit(c, t)
      PROVE  TypeOK'
  <2>1. /\ t \in DOMAIN memo /\ order' = Used(t) /\ memo' = memo
        /\ Set(c, [pc |-> "answered", table |-> t, at |-> memo[t].at])
    BY <1>3 DEF MemoHit, Valid
  <2>2. /\ Used(t) \in Seq(Tables)
        /\ \A u \in DOMAIN memo : \E i \in 1 .. Len(Used(t)) : Used(t)[i] = u
    BY <2>1, TypeIsListed, UsedFacts
  <2>3. Once(Used(t)) /\ \A i \in 1 .. Len(Used(t)) : Used(t)[i] \in DOMAIN memo
    BY <2>1, UsedOnce
  <2>4. memo[t].at \in Nat
    BY <2>1 DEF TypeOK, Entry
  <2>5. request' \in [Calls -> Request]
    BY <1>0, <2>1, <2>4 DEF Set, Request
  <2>6. \A u \in Tables : u \in DOMAIN memo <=> \E i \in 1 .. Len(Used(t)) : Used(t)[i] = u
    BY <2>2, <2>3
  <2> QED BY <2>1, <2>2, <2>3, <2>5, <2>6 DEF TypeOK, Once
<1>4. ASSUME NEW c \in Calls, NEW t \in Tables, MemoMissCacheHit(c, t)
      PROVE  TypeOK'
  <2>0. FlightOf(t) \in Flights
    BY DEF Tables, FlightOf
  <2>1. Cache!Hit(c, FlightOf(t)) /\ Memoize(c, t, cache[FlightOf(t)].at)
    BY <1>4 DEF MemoMissCacheHit
  <2>2. PICK at : at = cache[FlightOf(t)].at
    OBVIOUS
  <2>3. at \in Nat
    BY <1>0, <2>0, <2>1, <2>2, HitIsYoung DEF Young
  <2> QED BY <1>0, <2>1, <2>2, <2>3, MemoizeTypes
<1>5. ASSUME NEW c \in Calls, NEW t \in Tables, MemoMissCacheMiss(c, t)
      PROVE  TypeOK'
  <2>1. UNCHANGED <<memo, order>> /\ request' \in [Calls -> Request]
    BY <1>0, <1>5 DEF MemoMissCacheMiss, Set, Request
  <2> QED BY <2>1, <1>a
<1>7. ASSUME NEW c \in Calls, NEW f \in Flights, Resume(c, f)
      PROVE  TypeOK'
  <2>1. CASE request[c].pc = "waiting" /\ Memoize(c, request[c].table, task'[c].at)
    <3>1. PICK at : at = task'[c].at
      OBVIOUS
    <3>2. at \in Nat
      BY <1>0, <1>7, <3>1, FilledIsYoung DEF Resume, Young
    <3>3. PICK t \in Tables : t = request[c].table
      BY <2>1 DEF AgeInv, InFetch
    <3> QED BY <1>0, <2>1, <3>1, <3>2, <3>3, MemoizeTypes
  <2> QED BY <1>1, <1>7, <2>1 DEF Resume
<1>8. ASSUME NEW c \in Calls, NEW f \in Flights, Fail(c, f)
      PROVE  TypeOK'
  <2>1. CASE request[c].pc = "waiting" /\ Set(c, [pc |-> "failed", table |-> request[c].table])
    <3>1. PICK t \in Tables : t = request[c].table
      BY <2>1 DEF AgeInv, InFetch
    <3>2. request' \in [Calls -> Request]
      BY <1>0, <2>1, <3>1 DEF Set, Request
    <3> QED BY <1>8, <1>a, <3>2 DEF Fail
  <2> QED BY <1>1, <1>8, <2>1 DEF Fail
<1> QED
  BY <1>1, <1>3, <1>4, <1>5, <1>7, <1>8, AskedTables DEF Next, Tick, ReadSchedule, vars

(* What is memoized, waited for or answered is the table of a flight and a *)
(* tie weight (service.py:190), and the order that stands for the order of *)
(* the OrderedDict lists what is in it, whatever the order of hits, stores *)
(* and evictions.                                                          *)
THEOREM TypeCorrect == Spec => []TypeOK
<1>1. Spec => []AgeInv /\ [][Next]_vars /\ Init
  BY InitAgeInv, NextAgeInv, PTL DEF Spec
<1> QED
  BY <1>1, InitTypes, NextTypes, PTL

-----------------------------------------------------------------------------
\* Where t stands in s: at p, or nowhere, which is behind the end.
StandsAt(s, t, p) == \/ p \in 1 .. Len(s) /\ s[p] = t
                     \/ p = Len(s) + 1 /\ \A i \in 1 .. Len(s) : s[i] # t

\* r is s once t has been moved from p to the end.
Moved(s, t, p, r) == /\ Len(r) = IF p <= Len(s) THEN Len(s) ELSE Len(s) + 1
                     /\ \A k \in 1 .. Len(r) - 1 : r[k] = IF k < p THEN s[k] ELSE s[k + 1]
                     /\ r[Len(r)] = t

\* s is the end of w.
Ends(s, w) == /\ Len(s) <= Len(w)
              /\ \A i \in 1 .. Len(s) : s[i] = w[Len(w) - Len(s) + i]

\* What the memo keeps, of the tables ever used: as many as it holds, the last ones.
UsesInv == /\ uses \in Seq(Tables) /\ Once(uses)
           /\ Ends(order, uses)
           /\ Len(order) = IF Len(uses) < RpiCacheSize THEN Len(uses) ELSE RpiCacheSize

LEMMA AppendMoves ==
  ASSUME NEW S, NEW s \in Seq(S), NEW t \in S, StandsAt(s, t, Len(s) + 1)
  PROVE  Append(s, t) \in Seq(S) /\ Moved(s, t, Len(s) + 1, Append(s, t))
<1>1. Len(s) \in Nat
  BY LenProperties
<1>2. /\ Append(s, t) \in Seq(S) /\ Len(Append(s, t)) = Len(s) + 1
      /\ \A i \in 1 .. Len(s) : Append(s, t)[i] = s[i]
      /\ Append(s, t)[Len(s) + 1] = t
  BY AppendProperties
<1> QED BY <1>1, <1>2 DEF Moved

LEMMA RemoveAppendMoves ==
  ASSUME NEW S, NEW s \in Seq(S), NEW p \in 1 .. Len(s), NEW t \in S
  PROVE  Append(RemoveAt(s, p), t) \in Seq(S) /\ Moved(s, t, p, Append(RemoveAt(s, p), t))
<1> DEFINE rest == RemoveAt(s, p)
<1>1. Len(s) \in Nat /\ p \in Nat /\ p <= Len(s) /\ Len(s) >= 1
  BY LenProperties
<1>2. /\ rest \in Seq(S) /\ Len(rest) = Len(s) - 1
      /\ \A k \in 1 .. Len(s) - 1 : rest[k] = IF k < p THEN s[k] ELSE s[k + 1]
  BY RemoveAtPlaces
<1> HIDE DEF rest
<1>3. /\ Append(rest, t) \in Seq(S) /\ Len(Append(rest, t)) = Len(rest) + 1
      /\ \A i \in 1 .. Len(rest) : Append(rest, t)[i] = rest[i]
      /\ Append(rest, t)[Len(rest) + 1] = t
  BY <1>2, AppendProperties
<1>4. Moved(s, t, p, Append(rest, t))
  BY <1>1, <1>2, <1>3 DEF Moved
<1> QED BY <1>3, <1>4 DEF rest

\* A use moves a table to the end of the order, and to the end of all uses.
LEMMA UsedMoves ==
  ASSUME TypeOK, NEW t \in Tables
  PROVE  \E p \in Nat : /\ StandsAt(order, t, p) /\ Moved(order, t, p, Used(t))
                        /\ t \in DOMAIN memo => p <= Len(order)
<1>1. /\ order \in Seq(Tables) /\ Len(order) \in Nat /\ Listed
      /\ \A i \in 1 .. Len(order) : order[i] \in DOMAIN memo
  BY TypeIsListed, LenProperties
<1>2. CASE t \notin DOMAIN memo
  <2>1. StandsAt(order, t, Len(order) + 1)
    BY <1>1, <1>2 DEF StandsAt
  <2> QED BY <1>1, <1>2, <2>1, AppendMoves DEF Used
<1>3. CASE t \in DOMAIN memo
  <2>1. PICK p : p = Position(t) /\ p \in 1 .. Len(order) /\ order[p] = t
    BY <1>1, <1>3 DEF Listed, Position
  <2>2. Moved(order, t, p, Append(RemoveAt(order, p), t))
    BY <1>1, <2>1, RemoveAppendMoves
  <2>3. p \in Nat /\ p <= Len(order) /\ StandsAt(order, t, p)
    BY <1>1, <2>1 DEF StandsAt
  <2> QED BY <1>3, <2>1, <2>2, <2>3 DEF Used
<1> QED BY <1>2, <1>3

LEMMA TouchMoves ==
  ASSUME uses \in Seq(Tables), Once(uses), NEW t \in Tables, Touch(t)
  PROVE  uses' \in Seq(Tables) /\ \E q \in Nat : StandsAt(uses, t, q) /\ Moved(uses, t, q, uses')
<1>1. Len(uses) \in Nat
  BY LenProperties
<1>2. CASE \A i \in 1 .. Len(uses) : uses[i] # t
  <2>1. StandsAt(uses, t, Len(uses) + 1)
    BY <1>2 DEF StandsAt
  <2>2. uses' = Append(uses, t)
    BY <1>2 DEF Touch, RemoveFirst
  <2> QED BY <1>1, <2>1, <2>2, AppendMoves
<1>3. ASSUME NEW q \in 1 .. Len(uses), uses[q] = t
      PROVE  uses' \in Seq(Tables) /\ StandsAt(uses, t, q) /\ Moved(uses, t, q, uses')
  <2>1. {i \in 1 .. Len(uses) : uses[i] = t} = {q}
    BY <1>3 DEF Once
  <2>2. Min({q}) = q
    BY <1>1 DEF Min
  <2>3. RemoveFirst(uses, t) = RemoveAt(uses, q)
    BY <1>3, <2>1, <2>2 DEF RemoveFirst, SelectInSeq
  <2> QED BY <1>3, <2>3, RemoveAppendMoves DEF Touch, StandsAt
<1> QED BY <1>1, <1>2, <1>3

LEMMA MovedOnce ==
  ASSUME NEW S, NEW s \in Seq(S), NEW r \in Seq(S), NEW t, NEW p \in Nat,
         Once(s), StandsAt(s, t, p), Moved(s, t, p, r)
  PROVE  Once(r)
<1> DEFINE place(x) == IF x < p THEN x ELSE x + 1
<1>1. Len(s) \in Nat /\ Len(r) \in Nat /\ p >= 1 /\ p <= Len(s) + 1
  BY LenProperties DEF StandsAt
<1>2. ASSUME NEW k \in 1 .. Len(r) - 1
      PROVE  place(k) \in 1 .. Len(s) /\ place(k) # p /\ r[k] = s[place(k)]
  BY <1>1 DEF Moved
<1>3. \A k, l \in 1 .. Len(r) - 1 : place(k) = place(l) => k = l
  BY <1>1
<1> HIDE DEF place
<1>4. ASSUME NEW k \in 1 .. Len(r) - 1 PROVE r[k] # t
  BY <1>2 DEF StandsAt, Once
<1>5. ASSUME NEW k \in 1 .. Len(r) - 1, NEW l \in 1 .. Len(r) - 1, r[k] = r[l] PROVE k = l
  <2>1. s[place(k)] = s[place(l)]
    BY <1>2, <1>5
  <2> QED BY <1>2, <1>3, <2>1 DEF Once
<1>6. r[Len(r)] = t /\ \A i \in 1 .. Len(r) : i \in 1 .. Len(r) - 1 \/ i = Len(r)
  BY <1>1 DEF Moved
<1> QED BY <1>4, <1>5, <1>6 DEF Once

\* A table that is moved to the end of both leaves the one the end of the other.
LEMMA MovedEnds ==
  ASSUME NEW S, NEW s \in Seq(S), NEW w \in Seq(S), NEW r, NEW v, NEW t,
         NEW p \in Nat, NEW q \in Nat, Once(w), Ends(s, w),
         StandsAt(s, t, p), StandsAt(w, t, q), Moved(s, t, p, r), Moved(w, t, q, v)
  PROVE  /\ Ends(r, v)
         /\ \/ Len(r) = Len(s) /\ Len(v) = Len(w) /\ p <= Len(s)
            \/ Len(r) = Len(s) + 1 /\ Len(v) = Len(w) /\ Len(s) < Len(w) /\ p > Len(s)
            \/ Len(r) = Len(s) + 1 /\ Len(v) = Len(w) + 1 /\ p > Len(s)
<1> DEFINE d == Len(w) - Len(s)
<1>0. /\ Len(s) \in Nat /\ Len(w) \in Nat /\ Len(s) <= Len(w) /\ d \in Nat /\ Len(w) = d + Len(s)
      /\ p >= 1 /\ q >= 1 /\ p <= Len(s) + 1 /\ q <= Len(w) + 1
  BY LenProperties DEF Ends, StandsAt
<1>1. \A i \in 1 .. Len(s) : d + i \in 1 .. Len(w) /\ s[i] = w[d + i]
  BY <1>0 DEF Ends
<1> HIDE DEF d
<1>2. /\ Len(r) = IF p <= Len(s) THEN Len(s) ELSE Len(s) + 1
      /\ \A k \in 1 .. Len(r) - 1 : r[k] = IF k < p THEN s[k] ELSE s[k + 1]
      /\ Len(v) = IF q <= Len(w) THEN Len(w) ELSE Len(w) + 1
      /\ \A k \in 1 .. Len(v) - 1 : v[k] = IF k < q THEN w[k] ELSE w[k + 1]
      /\ r[Len(r)] = t /\ v[Len(v)] = t
  BY DEF Moved
<1>3. CASE p <= Len(s)
  <2>1. q = d + p
    <3>1. p \in 1 .. Len(s) /\ s[p] = t
      BY <1>0, <1>3 DEF StandsAt
    <3>2. d + p \in 1 .. Len(w) /\ w[d + p] = t
      BY <1>1, <3>1
    <3>3. q \in 1 .. Len(w) /\ w[q] = t
      BY <3>2 DEF StandsAt
    <3> QED BY <3>2, <3>3 DEF Once
  <2>2. Len(r) = Len(s) /\ Len(v) = Len(w)
    BY <1>0, <1>2, <1>3, <2>1
  <2>3. ASSUME NEW i \in 1 .. Len(s) - 1 PROVE r[i] = v[d + i]
    <3>1. d + i \in 1 .. Len(w) - 1 /\ i + 1 \in 1 .. Len(s) /\ d + (i + 1) = (d + i) + 1
          /\ (d + i < q <=> i < p) /\ i \in 1 .. Len(s)
      BY <1>0, <2>1
    <3>2. r[i] = (IF i < p THEN s[i] ELSE s[i + 1])
          /\ v[d + i] = (IF d + i < q THEN w[d + i] ELSE w[(d + i) + 1])
      BY <1>2, <2>2, <3>1
    <3>3. s[i] = w[d + i] /\ s[i + 1] = w[(d + i) + 1]
      BY <1>1, <3>1
    <3> QED BY <3>1, <3>2, <3>3
  <2>4. ASSUME NEW i \in 1 .. Len(s) PROVE r[i] = v[d + i]
    <3>1. i \in 1 .. Len(s) - 1 \/ (i = Len(s) /\ d + i = Len(w))
      BY <1>0
    <3> QED BY <1>2, <2>2, <2>3, <3>1
  <2>5. Len(v) - Len(r) = d
    BY <1>0, <2>2
  <2> QED BY <1>0, <1>3, <2>2, <2>4, <2>5 DEF Ends
<1>4. CASE p > Len(s) /\ q <= Len(w)
  <2>1. w[q] = t /\ q \in 1 .. Len(w)
    BY <1>0, <1>4 DEF StandsAt
  <2>2. q <= d
    <3>1. \A i \in 1 .. Len(s) : w[d + i] # t
      BY <1>0, <1>1, <1>4 DEF StandsAt
    <3>2. CASE q > d
      <4>1. q - d \in 1 .. Len(s) /\ d + (q - d) = q
        BY <1>0, <1>4, <3>2
      <4> QED BY <2>1, <3>1, <4>1
    <3> QED BY <1>0, <3>2
  <2>3. Len(r) = Len(s) + 1 /\ Len(v) = Len(w) /\ d >= 1
    BY <1>0, <1>2, <1>4, <2>2
  <2>4. ASSUME NEW i \in 1 .. Len(s) PROVE r[i] = v[(d - 1) + i]
    <3>1. (d - 1) + i \in 1 .. Len(w) - 1 /\ ~((d - 1) + i < q) /\ ((d - 1) + i) + 1 = d + i
          /\ i < p /\ i \in 1 .. Len(r) - 1
      BY <1>0, <1>4, <2>2, <2>3
    <3>2. r[i] = s[i] /\ v[(d - 1) + i] = w[((d - 1) + i) + 1]
      BY <1>2, <2>3, <3>1
    <3> QED BY <1>1, <3>1, <3>2
  <2>5. Len(v) - Len(r) = d - 1 /\ Len(r) <= Len(v)
    BY <1>0, <2>3
  <2>6. ASSUME NEW i \in 1 .. Len(r) PROVE r[i] = v[(d - 1) + i]
    <3>1. i \in 1 .. Len(s) \/ (i = Len(r) /\ (d - 1) + i = Len(v))
      BY <1>0, <2>3
    <3> QED BY <1>2, <2>4, <3>1
  <2> QED BY <1>0, <1>4, <2>3, <2>5, <2>6 DEF Ends
<1>5. CASE p > Len(s) /\ q > Len(w)
  <2>1. Len(r) = Len(s) + 1 /\ Len(v) = Len(w) + 1
    BY <1>0, <1>2, <1>5
  <2>2. Len(v) - Len(r) = d /\ Len(r) <= Len(v)
    BY <1>0, <2>1
  <2>3. ASSUME NEW i \in 1 .. Len(s) PROVE r[i] = v[d + i]
    <3>1. d + i \in 1 .. Len(v) - 1 /\ d + i < q /\ i < p /\ i \in 1 .. Len(r) - 1
      BY <1>0, <1>5, <2>1
    <3>2. r[i] = s[i] /\ v[d + i] = w[d + i]
      BY <1>2, <3>1
    <3> QED BY <1>1, <3>2
  <2>4. ASSUME NEW i \in 1 .. Len(r) PROVE r[i] = v[d + i]
    <3>1. i \in 1 .. Len(s) \/ (i = Len(r) /\ d + i = Len(v))
      BY <1>0, <2>1
    <3> QED BY <1>2, <2>3, <3>1
  <2> QED BY <1>5, <2>1, <2>2, <2>4 DEF Ends
<1> QED BY <1>0, <1>3, <1>4, <1>5

\* The reversed end of a reversed sequence is its prefix, as the library has it.
LEMMA EndsIsSuffix ==
  ASSUME NEW S, NEW s \in Seq(S), NEW w \in Seq(S), Ends(s, w)
  PROVE  IsSuffix(s, w)
<1> DEFINE n == Len(s)
           m == Len(w)
           x == Reverse(s)
           y == Reverse(w)
<1>1. n \in Nat /\ m \in Nat /\ n <= m
  BY LenProperties DEF Ends
<1>2. \A i \in 1 .. n : s[i] \in S
  BY ElementOfSeq
<1>3. \A i \in 1 .. m : w[i] \in S
  BY ElementOfSeq
<1>4. /\ x = [i \in 1 .. n |-> s[(n - i) + 1]]
      /\ y = [i \in 1 .. m |-> w[(m - i) + 1]]
  BY DEF Reverse
<1>5. \A i \in 1 .. n : s[i] = w[(m - n) + i]
  BY DEF Ends
<1> HIDE DEF n, m, x, y
<1>6. x \in Seq(S) /\ Len(x) = n /\ \A i \in 1 .. n : x[i] = s[(n - i) + 1]
  <2>1. \A i \in 1 .. n : (n - i) + 1 \in 1 .. n
    BY <1>1
  <2>2. x \in [1 .. n -> S]
    BY <1>2, <1>4, <2>1
  <2>3. x \in Seq(S) /\ DOMAIN x = 1 .. n
    BY <1>1, <2>2, SeqDef
  <2>4. Len(x) = n
    BY <1>1, <2>3, LenProperties
  <2> QED BY <1>4, <2>3, <2>4
<1>7. y \in Seq(S) /\ Len(y) = m /\ \A i \in 1 .. m : y[i] = w[(m - i) + 1]
  <2>1. \A i \in 1 .. m : (m - i) + 1 \in 1 .. m
    BY <1>1
  <2>2. y \in [1 .. m -> S]
    BY <1>3, <1>4, <2>1
  <2>3. y \in Seq(S) /\ DOMAIN y = 1 .. m
    BY <1>1, <2>2, SeqDef
  <2>4. Len(y) = m
    BY <1>1, <2>3, LenProperties
  <2> QED BY <1>4, <2>3, <2>4
<1>8. \A i \in 1 .. n : x[i] = y[i]
  <2> TAKE i \in 1 .. n
  <2>1. i \in 1 .. m /\ (n - i) + 1 \in 1 .. n /\ (m - n) + ((n - i) + 1) = (m - i) + 1
    BY <1>1
  <2>2. s[(n - i) + 1] = w[(m - n) + ((n - i) + 1)]
    BY <1>5, <2>1
  <2>3. x[i] = s[(n - i) + 1] /\ y[i] = w[(m - i) + 1]
    BY <1>6, <1>7, <2>1
  <2> QED BY <2>1, <2>2, <2>3
<1>9. SubSeq(x, 1, n) = SubSeq(y, 1, n)
  <2>1. /\ SubSeq(x, 1, n) \in Seq(S) /\ Len(SubSeq(x, 1, n)) = n
        /\ \A i \in 1 .. n : SubSeq(x, 1, n)[i] = x[i]
    <3>1. \A i \in 1 .. n : x[i] \in S /\ 1 + i - 1 = i
      BY <1>1, <1>6, ElementOfSeq
    <3>2. /\ SubSeq(x, 1, n) \in Seq(S)
          /\ Len(SubSeq(x, 1, n)) = IF 1 <= n THEN n - 1 + 1 ELSE 0
          /\ \A i \in 1 .. n - 1 + 1 : SubSeq(x, 1, n)[i] = x[1 + i - 1]
      BY <1>1, <3>1, SubSeqProperties
    <3>3. n - 1 + 1 = n /\ (IF 1 <= n THEN n - 1 + 1 ELSE 0) = n
      BY <1>1
    <3> QED BY <3>1, <3>2, <3>3
  <2>2. /\ SubSeq(y, 1, n) \in Seq(S) /\ Len(SubSeq(y, 1, n)) = n
        /\ \A i \in 1 .. n : SubSeq(y, 1, n)[i] = y[i]
    <3>1. \A i \in 1 .. n : y[i] \in S /\ 1 + i - 1 = i
      BY <1>1, <1>7, ElementOfSeq
    <3>2. /\ SubSeq(y, 1, n) \in Seq(S)
          /\ Len(SubSeq(y, 1, n)) = IF 1 <= n THEN n - 1 + 1 ELSE 0
          /\ \A i \in 1 .. n - 1 + 1 : SubSeq(y, 1, n)[i] = y[1 + i - 1]
      BY <1>1, <3>1, SubSeqProperties
    <3>3. n - 1 + 1 = n /\ (IF 1 <= n THEN n - 1 + 1 ELSE 0) = n
      BY <1>1
    <3> QED BY <3>1, <3>2, <3>3
  <2> QED BY <1>8, <2>1, <2>2, SeqEqual
<1> QED BY <1>1, <1>6, <1>7, <1>9 DEF IsSuffix, IsPrefix, x, y

-----------------------------------------------------------------------------
\* A table that was used is the last of the order and of the uses, kept or not.
LEMMA UseKeeps ==
  ASSUME TypeOK, UsesInv, NEW t \in Tables, Touch(t)
  PROVE  /\ uses' \in Seq(Tables) /\ Once(uses')
         /\ Used(t) \in Seq(Tables) /\ Ends(Used(t), uses')
         /\ \/ Len(Used(t)) = Len(order) /\ Len(uses') = Len(uses)
            \/ /\ Len(Used(t)) = Len(order) + 1 /\ Len(uses') = Len(uses)
               /\ Len(order) < Len(uses) /\ t \notin DOMAIN memo
            \/ /\ Len(Used(t)) = Len(order) + 1 /\ Len(uses') = Len(uses) + 1
               /\ t \notin DOMAIN memo
<1>1. /\ order \in Seq(Tables) /\ uses \in Seq(Tables) /\ Once(uses) /\ Ends(order, uses)
      /\ Len(order) \in Nat
  BY LenProperties DEF UsesInv, TypeOK
<1>2. PICK p \in Nat : /\ StandsAt(order, t, p) /\ Moved(order, t, p, Used(t))
                       /\ t \in DOMAIN memo => p <= Len(order)
  BY UsedMoves
<1>3. PICK q \in Nat : uses' \in Seq(Tables) /\ StandsAt(uses, t, q) /\ Moved(uses, t, q, uses')
  BY <1>1, TouchMoves
<1>4. Used(t) \in Seq(Tables)
  BY TypeIsListed, UsedFacts
<1>5. Once(uses')
  BY <1>1, <1>3, MovedOnce
<1>6. /\ Ends(Used(t), uses')
      /\ \/ Len(Used(t)) = Len(order) /\ Len(uses') = Len(uses) /\ p <= Len(order)
         \/ /\ Len(Used(t)) = Len(order) + 1 /\ Len(uses') = Len(uses)
            /\ Len(order) < Len(uses) /\ p > Len(order)
         \/ Len(Used(t)) = Len(order) + 1 /\ Len(uses') = Len(uses) + 1 /\ p > Len(order)
  BY <1>1, <1>2, <1>3, MovedEnds
<1> QED BY <1>1, <1>2, <1>3, <1>4, <1>5, <1>6

LEMMA MemoizeUses ==
  ASSUME TypeOK, UsesInv, NEW c \in Calls, NEW t \in Tables, NEW at, Memoize(c, t, at), Touch(t)
  PROVE  UsesInv'
<1> DEFINE used == Used(t)
<1>0. /\ Len(order) \in Nat /\ Len(uses) \in Nat /\ RpiCacheSize \in Nat
      /\ Len(order) = IF Len(uses) < RpiCacheSize THEN Len(uses) ELSE RpiCacheSize
  BY LenProperties, ServiceAssumption DEF UsesInv, TypeOK, ServiceAssumption
<1>1. /\ uses' \in Seq(Tables) /\ Once(uses')
      /\ used \in Seq(Tables) /\ Ends(used, uses')
      /\ \/ Len(used) = Len(order) /\ Len(uses') = Len(uses)
         \/ Len(used) = Len(order) + 1 /\ Len(uses') = Len(uses) /\ Len(order) < Len(uses)
         \/ Len(used) = Len(order) + 1 /\ Len(uses') = Len(uses) + 1
  BY UseKeeps
<1>2. \/ ~Full(used) /\ order' = used
      \/ Full(used) /\ order' = Tail(used)
  BY DEF Memoize
<1>3. Len(used) \in Nat /\ Len(uses') \in Nat /\ Len(used) >= 1
  BY <1>1, UsedFacts, TypeIsListed, LenProperties
<1> HIDE DEF used
<1>4. CASE ~Full(used) /\ order' = used
  <2>1. Len(used) = IF Len(uses') < RpiCacheSize THEN Len(uses') ELSE RpiCacheSize
    BY <1>0, <1>1, <1>3, <1>4 DEF Full
  <2> QED BY <1>1, <1>4, <2>1 DEF UsesInv
<1>5. CASE Full(used) /\ order' = Tail(used)
  <2>1. /\ Len(Tail(used)) = Len(used) - 1
        /\ \A i \in 1 .. Len(Tail(used)) : Tail(used)[i] = used[i + 1]
    BY <1>1, <1>3, HeadTailProperties
  <2>2. Ends(Tail(used), uses')
    <3>1. ASSUME NEW i \in 1 .. Len(Tail(used))
          PROVE  Tail(used)[i] = uses'[Len(uses') - Len(Tail(used)) + i]
      <4>0. i \in 1 .. Len(used) - 1
        BY <2>1
      <4>1. i + 1 \in 1 .. Len(used)
        BY <1>3, <4>0
      <4>2. Len(uses') - (Len(used) - 1) + i = Len(uses') - Len(used) + (i + 1)
        BY <1>3, <4>0
      <4>3. used[i + 1] = uses'[Len(uses') - Len(used) + (i + 1)]
        BY <1>1, <4>1 DEF Ends
      <4> QED BY <2>1, <4>0, <4>2, <4>3
    <3>2. Len(used) <= Len(uses')
      BY <1>1 DEF Ends
    <3>3. Len(Tail(used)) <= Len(uses')
      BY <1>3, <2>1, <3>2
    <3> QED BY <3>1, <3>3 DEF Ends
  <2>3. Len(Tail(used)) = IF Len(uses') < RpiCacheSize THEN Len(uses') ELSE RpiCacheSize
    BY <1>0, <1>1, <1>3, <1>5, <2>1 DEF Full
  <2> QED BY <1>1, <1>5, <2>2, <2>3 DEF UsesInv
<1> QED BY <1>2, <1>4, <1>5

LEMMA NextUses == AgeInv /\ TypeOK /\ UsesInv /\ [MCNext]_mcvars => UsesInv'
<1> SUFFICES ASSUME AgeInv, TypeOK, UsesInv, [MCNext]_mcvars PROVE UsesInv'
  OBVIOUS
<1>1. ASSUME UNCHANGED <<order, uses>> PROVE UsesInv'
  BY <1>1 DEF UsesInv
<1>2. CASE UNCHANGED mcvars
  BY <1>1, <1>2 DEF mcvars, vars
<1>3. CASE Tick /\ UNCHANGED uses
  BY <1>1, <1>3 DEF Tick
<1>4. ASSUME NEW c \in Calls, NEW t \in Tables, MemoHit(c, t), Touch(t)
      PROVE  UsesInv'
  <2>1. t \in DOMAIN memo /\ order' = Used(t)
    BY <1>4 DEF MemoHit, Valid
  <2> QED BY <1>4, <2>1, UseKeeps DEF UsesInv
<1>5. ASSUME NEW c \in Calls, NEW t \in Tables, MemoMissCacheHit(c, t), Touch(t)
      PROVE  UsesInv'
  BY <1>5, MemoizeUses DEF MemoMissCacheHit
<1>6. ASSUME NEW c \in Calls, NEW t \in Tables, MemoMissCacheMiss(c, t), UNCHANGED uses
      PROVE  UsesInv'
  BY <1>1, <1>6 DEF MemoMissCacheMiss
<1>7. ASSUME NEW c \in Calls, NEW f \in Flights, ReadSchedule(c, f) \/ Fail(c, f), UNCHANGED uses
      PROVE  UsesInv'
  BY <1>1, <1>7 DEF ReadSchedule, Fail
<1>8. ASSUME NEW c \in Calls, NEW f \in Flights, Resume(c, f),
             IF request[c].pc = "waiting" THEN Touch(request[c].table) ELSE UNCHANGED uses
      PROVE  UsesInv'
  <2>1. CASE request[c].pc # "waiting"
    BY <1>1, <1>8, <2>1 DEF Resume
  <2>2. CASE request[c].pc = "waiting"
    <3>1. PICK t \in Tables : t = request[c].table
      BY <2>2 DEF AgeInv, InFetch
    <3>2. Memoize(c, t, task'[c].at) /\ Touch(t)
      BY <1>8, <2>2, <3>1 DEF Resume
    <3> QED BY <3>2, MemoizeUses
  <2> QED BY <2>1, <2>2
<1> QED
  BY <1>2, <1>3, <1>4, <1>5, <1>6, <1>7, <1>8, AskedTables DEF MCNext

(* The memo is an LRU: whatever the calls and their order, it holds the    *)
(* tables used last, as many as it has room for, and what popitem evicts   *)
(* is the table whose last use lies furthest back.                         *)
THEOREM MostRecentlyUsedAreKept == MCSpec => []KeepsMostRecentlyUsed
<1>1. MCInit => Init /\ UsesInv
  <2> SUFFICES ASSUME MCInit PROVE Init /\ UsesInv
    OBVIOUS
  <2>1. /\ order \in Seq(Tables) /\ uses \in Seq(Tables) /\ Len(order) = 0 /\ Len(uses) = 0
    BY DEF MCInit, Init
  <2> QED BY <2>1, ServiceAssumption
          DEF MCInit, UsesInv, Once, Ends, ServiceAssumption
<1>2. [MCNext]_mcvars => [Next]_vars
  BY DEF MCNext, mcvars, Next
<1>3. TypeOK /\ UsesInv => KeepsMostRecentlyUsed
  BY EndsIsSuffix DEF UsesInv, TypeOK, KeepsMostRecentlyUsed
<1> QED
  BY <1>1, <1>2, <1>3, InitAgeInv, NextAgeInv, InitTypes, NextTypes, NextUses, PTL DEF MCSpec

-----------------------------------------------------------------------------
(* Sums.  A sum is taken as the size of the area under its values, which   *)
(* does not depend on the order in which SumFunction folds them.           *)
LEMMA Least ==
  ASSUME NEW T, T \subseteq Nat, T # {}
  PROVE  \E n \in T : \A m \in T : ~(m < n)
<1> DEFINE R == {ss \in Nat \X Nat : ss[1] < ss[2]}
<1>1. IsWellFoundedOn(R, Nat)
  BY NatLessThanWellFounded DEF OpToRel
<1> HIDE DEF R
<1>2. \E n \in T : \A m \in T : ~(<<m, n>> \in R)
  BY <1>1, WFMin
<1> QED
  BY <1>2 DEF R

\* Of the subsets of a finite set, some have no smaller one beside them.
LEMMA Smallest ==
  ASSUME NEW D, IsFiniteSet(D), NEW B, B \subseteq SUBSET D, B # {}
  PROVE  \E s \in B : \A x \in s : s \ {x} \notin B
<1> DEFINE T == {n \in Nat : \E s \in B : Cardinality(s) = n}
<1>1. \A s \in B : IsFiniteSet(s) /\ Cardinality(s) \in Nat
  BY FS_Subset, FS_CardinalityType
<1>2. T \subseteq Nat /\ T # {}
  BY <1>1
<1> HIDE DEF T
<1>3. PICK n \in T : \A m \in T : ~(m < n)
  BY <1>2, Least
<1>4. PICK s \in B : Cardinality(s) = n
  BY <1>3 DEF T
<1>5. ASSUME NEW x \in s, s \ {x} \in B PROVE FALSE
  <2>1. Cardinality(s \ {x}) = n - 1
    BY <1>1, <1>4, FS_RemoveElement
  <2>2. n - 1 \in T
    BY <1>1, <1>5, <2>1 DEF T
  <2> QED BY <1>2, <1>3, <2>2
<1> QED BY <1>5

\* The points under the values that g has on s.
Area(s, g) == {p \in s \X Nat : p[2] < g[p[1]]}

LEMMA AreaAdds ==
  ASSUME NEW s, NEW g, NEW x \in s, g[x] \in Nat, IsFiniteSet(Area(s \ {x}, g))
  PROVE  /\ IsFiniteSet(Area(s, g))
         /\ Cardinality(Area(s, g)) = g[x] + Cardinality(Area(s \ {x}, g))
<1> DEFINE column == {x} \X (0 .. g[x] - 1)
           rest == Area(s \ {x}, g)
           b == [n \in 0 .. g[x] - 1 |-> <<x, n>>]
<1>1. IsFiniteSet(column) /\ Cardinality(column) = g[x]
  <2>1. b \in Bijection(0 .. g[x] - 1, column)
    BY DEF Bijection, Injection, Surjection, IsInjective
  <2>2. IsFiniteSet(0 .. g[x] - 1) /\ Cardinality(0 .. g[x] - 1) = g[x]
    <3>1. PICK n \in Int : n = g[x] - 1
      OBVIOUS
    <3>2. IsFiniteSet(0 .. n) /\ Cardinality(0 .. n) = IF 0 > n THEN 0 ELSE n - 0 + 1
      BY FS_Interval
    <3> QED BY <3>1, <3>2
  <2> HIDE DEF b, column
  <2>3. ExistsBijection(0 .. g[x] - 1, column)
    BY <2>1 DEF ExistsBijection
  <2> QED BY <2>2, <2>3, FS_Bijection
<1>2. Area(s, g) = rest \union column
  BY DEF Area
<1>3. rest \cap column = {}
  BY DEF Area
<1> HIDE DEF column, rest
<1>4. /\ IsFiniteSet(rest \union column)
      /\ Cardinality(rest \union column)
           = Cardinality(rest) + Cardinality(column) - Cardinality(rest \cap column)
  BY <1>1, FS_Union DEF rest
<1>5. Cardinality(rest) \in Nat
  BY FS_CardinalityType DEF rest
<1>6. Cardinality(rest \cap column) = 0
  BY <1>3, FS_EmptySet
<1>7. Cardinality(rest \union column) = g[x] + Cardinality(rest)
  BY <1>1, <1>4, <1>5, <1>6
<1> HIDE DEF b
<1> QED BY <1>2, <1>4, <1>7 DEF rest

LEMMA AreaFinite ==
  ASSUME NEW D, IsFiniteSet(D), NEW g, \A x \in D : g[x] \in Nat
  PROVE  \A s \in SUBSET D : IsFiniteSet(Area(s, g)) /\ Cardinality(Area(s, g)) \in Nat
<1> DEFINE B == {s \in SUBSET D : ~IsFiniteSet(Area(s, g))}
<1>1. ASSUME B # {} PROVE FALSE
  <2>1. PICK s \in B : \A x \in s : s \ {x} \notin B
    BY <1>1, Smallest
  <2>2. CASE s = {}
    <3>1. Area(s, g) = {}
      BY <2>2 DEF Area
    <3> QED BY <3>1, FS_EmptySet
  <2>3. CASE s # {}
    <3>1. PICK x \in s : TRUE
      BY <2>3
    <3>2. IsFiniteSet(Area(s \ {x}, g))
      BY <2>1, <3>1
    <3> QED BY <3>2, AreaAdds
  <2> QED BY <2>2, <2>3
<1> QED BY <1>1, FS_CardinalityType

LEMMA SumIsArea ==
  ASSUME NEW g, IsFiniteSet(DOMAIN g), \A x \in DOMAIN g : g[x] \in Nat
  PROVE  SumFunction(g) = Cardinality(Area(DOMAIN g, g))
<1> DEFINE D == DOMAIN g
           some(s) == CHOOSE x \in s : TRUE
           F(h) == [s \in SUBSET D |-> IF s = {} THEN 0 ELSE g[some(s)] + h[s \ {some(s)}]]
           f == [s \in SUBSET D |-> Cardinality(Area(s, g))]
           sum == CHOOSE h : h = F(h)
<1>1. SumFunction(g) = sum[D]
  BY DEF SumFunction, SumFunctionOnSet, FoldFunctionOnSet, MapThenFoldSet
<1>2. \A s \in SUBSET D : s # {} => some(s) \in s /\ s \ {some(s)} \in SUBSET D
  OBVIOUS
<1> HIDE DEF some
<1>3. ASSUME NEW s \in SUBSET D
      PROVE  f[s] = IF s = {} THEN 0 ELSE g[some(s)] + f[s \ {some(s)}]
  <2>1. CASE s = {}
    <3>1. Area(s, g) = {}
      BY <2>1 DEF Area
    <3> QED BY <2>1, <3>1, FS_EmptySet
  <2>2. CASE s # {}
    <3>1. PICK x \in s : x = some(s)
      BY <1>2, <2>2
    <3>2. s \ {x} \in SUBSET D /\ IsFiniteSet(Area(s \ {x}, g)) /\ g[x] \in Nat
      BY AreaFinite
    <3>3. Cardinality(Area(s, g)) = g[x] + Cardinality(Area(s \ {x}, g))
      BY <3>2, AreaAdds
    <3> QED BY <2>2, <3>1, <3>2, <3>3
  <2> QED BY <2>1, <2>2
<1>4. f = F(f)
  <2> HIDE DEF D
  <2> QED BY <1>3
<1> HIDE DEF f
<1>5. sum = F(sum)
  BY <1>4
<1> HIDE DEF sum
<1>6. sum[D] = f[D]
  <2> DEFINE B == {s \in SUBSET D : sum[s] # f[s]}
  <2>1. ASSUME B # {} PROVE FALSE
    <3>1. PICK s \in B : \A x \in s : s \ {x} \notin B
      BY <2>1, Smallest
    <3>2. sum[s] = IF s = {} THEN 0 ELSE g[some(s)] + sum[s \ {some(s)}]
      BY <1>5, <3>1
    <3>3. s # {} => s \ {some(s)} \notin B /\ s \ {some(s)} \in SUBSET D
      BY <1>2, <3>1
    <3>4. s # {} => sum[s \ {some(s)}] = f[s \ {some(s)}]
      BY <3>3
    <3>5. sum[s] = f[s]
      BY <1>3, <3>2, <3>4
    <3> QED BY <3>1, <3>5
  <2> QED BY <2>1
<1> QED BY <1>1, <1>6 DEF f

\* A mean of natural numbers, and of the same ones under other names.
LEMMA MeanType ==
  ASSUME NEW g, IsFiniteSet(DOMAIN g), \A x \in DOMAIN g : g[x] \in Nat
  PROVE  Mean(g) \in Nat
<1>1. SumFunction(g) \in Nat
  BY SumIsArea, AreaFinite
<1>2. Cardinality(DOMAIN g) \in Nat /\ (DOMAIN g # {} => Cardinality(DOMAIN g) # 0)
  BY FS_CardinalityType, FS_EmptySet
<1>3. ASSUME NEW m \in Nat, NEW n \in Nat, n # 0 PROVE m \div n \in Nat
  BY <1>3, SMT
<1> QED BY <1>1, <1>2, <1>3 DEF Mean

LEMMA MeanSame ==
  ASSUME NEW g, NEW k, NEW b \in Bijection(DOMAIN g, DOMAIN k), IsFiniteSet(DOMAIN g),
         \A x \in DOMAIN g : g[x] \in Nat /\ g[x] = k[b[x]]
  PROVE  Mean(g) = Mean(k)
<1> DEFINE S == DOMAIN g
           T == DOMAIN k
           A == Area(S, g)
           C == Area(T, k)
           c == [p \in A |-> <<b[p[1]], p[2]>>]
<1>1. /\ b \in [S -> T] /\ \A x, y \in S : b[x] = b[y] => x = y
      /\ \A y \in T : \E x \in S : b[x] = y
  BY DEF Bijection, Injection, Surjection, IsInjective
<1>2. IsFiniteSet(T) /\ Cardinality(T) = Cardinality(S)
  BY FS_Bijection DEF ExistsBijection
<1>3. \A y \in T : k[y] \in Nat
  BY <1>1
<1> HIDE DEF S, T
<1>4. \A p \in A : p = <<p[1], p[2]>> /\ p[1] \in S /\ p[2] \in Nat /\ p[2] < g[p[1]]
  BY DEF Area
<1>5. \A q \in C : q = <<q[1], q[2]>> /\ q[1] \in T /\ q[2] \in Nat /\ q[2] < k[q[1]]
  BY DEF Area
<1>6. \A x \in S : g[x] = k[b[x]]
  BY DEF S
<1>7. c \in [A -> C]
  <2>1. ASSUME NEW p \in A PROVE <<b[p[1]], p[2]>> \in C
    <3>1. b[p[1]] \in T /\ p[2] \in Nat /\ p[2] < k[b[p[1]]]
      BY <1>1, <1>4, <1>6
    <3> QED BY <3>1 DEF Area
  <2> QED BY <2>1
<1>8. \A p, q \in A : c[p] = c[q] => p = q
  BY <1>1, <1>4
<1>9. ASSUME NEW q \in C PROVE \E p \in A : c[p] = q
  <2>1. PICK x \in S : b[x] = q[1]
    BY <1>1, <1>5
  <2>2. <<x, q[2]>> \in A
    BY <1>5, <1>6, <2>1 DEF Area
  <2>3. c[<<x, q[2]>>] = <<b[x], q[2]>>
    BY <2>2
  <2> QED BY <1>5, <2>1, <2>2, <2>3
<1> HIDE DEF c
<1>10. ExistsBijection(A, C)
  BY <1>7, <1>8, <1>9 DEF ExistsBijection, Bijection, Injection, Surjection, IsInjective
<1>11. IsFiniteSet(A)
  BY AreaFinite DEF S
<1> HIDE DEF A, C
<1>12. Cardinality(A) = Cardinality(C)
  BY <1>10, <1>11, FS_Bijection
<1>13. SumFunction(g) = SumFunction(k)
  BY <1>2, <1>3, <1>12, SumIsArea DEF S, T, A, C
<1>14. S = {} <=> T = {}
  BY <1>1
<1> QED BY <1>2, <1>13, <1>14 DEF Mean, S, T

-----------------------------------------------------------------------------
(* The list of games of a team and its matches against another: each match *)
(* is a game, and two games against one opponent are two matches.          *)
PairedIn(t, list) ==
  \A u \in Teams \ {t} :
    /\ Between(t, u) # {} => \E i \in 1 .. Len(list) : list[i].opponent = u
    /\ \A i, j \in 1 .. Len(list) :
         i # j /\ list[i].opponent = u /\ list[j].opponent = u => \E k, l \in Between(t, u) : k # l

Paired == \A t \in Teams : PairedIn(t, GamesOf(t))

\* What a match does to the list of one team.
LEMMA GamesGrow ==
  ASSUME GraphIInv, NEW m \in Match, AddMatch(m), NEW t \in Teams, NEW after, after = GamesOf(t)'
  PROVE  LET n == Len(GamesOf(t))
         IN  /\ n \in Nat /\ Len(after) \in Nat /\ n <= Len(after)
             /\ \A i \in 1 .. n : after[i] = GamesOf(t)[i]
             /\ \A i \in 1 .. Len(after) : \/ i \in 1 .. n
                                           \/ t = m.home /\ after[i].opponent = m.away
                                           \/ t = m.away /\ after[i].opponent = m.home
             /\ t = m.home => \E i \in 1 .. Len(after) : after[i].opponent = m.away
             /\ t = m.away => \E i \in 1 .. Len(after) : after[i].opponent = m.home
             /\ m.home # m.away => Len(after) <= n + 1
<1> DEFINE h == m.home
           a == m.away
           hg == [opponent |-> a, outcome |-> HomeOutcome(m)]
           ag == [opponent |-> h, outcome |-> AwayOutcome(m)]
           s == GamesOf(t)
           n == Len(s)
<1>1. h \in Teams /\ a \in Teams /\ hg \in Game /\ ag \in Game
  BY OutcomesMirror DEF Match, Game, AddMatch
<1>2. s \in Seq(Game) /\ n \in Nat
  BY RecordOfType DEF GraphIInv
<1>3. hg.opponent = a /\ ag.opponent = h
  OBVIOUS
<1>4. /\ t # h /\ t # a => after = s
      /\ t = h /\ t # a => after = Append(s, hg)
      /\ t = a /\ t # h => after = Append(s, ag)
      /\ t = a /\ t = h => after = Append(Append(s, hg), ag)
  <2>1. games' = IF h = a THEN Put(games, h, Append(Append(GamesOf(h), hg), ag))
                 ELSE Put(Put(games, h, Append(GamesOf(h), hg)), a, Append(GamesOf(a), ag))
    BY DEF AddMatch, Games
  <2>2. after = IF t \in DOMAIN games' THEN games'[t] ELSE <<>>
    BY DEF GamesOf
  <2> DEFINE sh == Append(GamesOf(h), hg)
             sa == Append(GamesOf(a), ag)
             sb == Append(Append(GamesOf(h), hg), ag)
  <2> HIDE DEF sh, sa, sb, hg, ag
  <2>3. /\ t = h /\ t # a => after = sh
        /\ t = a /\ t # h => after = sa
        /\ t = a /\ t = h => after = sb
    BY <2>1, <2>2 DEF Put, sh, sa, sb
  <2>4. t # h /\ t # a => after = s
    BY <2>1, <2>2 DEF Put, GamesOf
  <2> QED BY <2>3, <2>4 DEF sh, sa, sb
<1> HIDE DEF s, n, hg, ag
<1>5. \A g \in Game : /\ Append(s, g) \in Seq(Game) /\ Len(Append(s, g)) = n + 1
                      /\ \A i \in 1 .. n : Append(s, g)[i] = s[i]
                      /\ Append(s, g)[n + 1] = g
  BY <1>2, AppendProperties DEF n
<1>6. CASE t # h /\ t # a
  BY <1>2, <1>4, <1>6 DEF s, n
<1>7. CASE t = h /\ t # a
  <2>1. after = Append(s, hg)
    BY <1>4, <1>7
  <2>2. /\ Len(after) = n + 1 /\ after[n + 1].opponent = a
        /\ \A i \in 1 .. n : after[i] = s[i]
        /\ n + 1 \in 1 .. Len(after) /\ \A i \in 1 .. Len(after) : i \in 1 .. n \/ i = n + 1
    BY <1>1, <1>2, <1>3, <1>5, <2>1
  <2> QED BY <1>2, <1>7, <2>2 DEF s, n
<1>8. CASE t = a /\ t # h
  <2>1. after = Append(s, ag)
    BY <1>4, <1>8
  <2>2. /\ Len(after) = n + 1 /\ after[n + 1].opponent = h
        /\ \A i \in 1 .. n : after[i] = s[i]
        /\ n + 1 \in 1 .. Len(after) /\ \A i \in 1 .. Len(after) : i \in 1 .. n \/ i = n + 1
    BY <1>1, <1>2, <1>3, <1>5, <2>1
  <2> QED BY <1>2, <1>8, <2>2 DEF s, n
<1>9. CASE t = a /\ t = h
  <2> DEFINE r == Append(s, hg)
  <2>1. after = Append(r, ag)
    BY <1>4, <1>9
  <2>2. r \in Seq(Game) /\ Len(r) = n + 1 /\ r[n + 1] = hg /\ \A i \in 1 .. n : r[i] = s[i]
    BY <1>1, <1>5
  <2> HIDE DEF r
  <2>3. /\ Len(after) = Len(r) + 1 /\ after[Len(r) + 1] = ag
        /\ \A i \in 1 .. Len(r) : after[i] = r[i]
    BY <1>1, <2>1, <2>2, AppendProperties
  <2>4. /\ Len(after) = n + 2 /\ after[n + 2].opponent = h /\ after[n + 1].opponent = a
        /\ \A i \in 1 .. n : after[i] = s[i]
        /\ n + 1 \in 1 .. Len(after) /\ n + 2 \in 1 .. Len(after)
        /\ \A i \in 1 .. Len(after) : i \in 1 .. n \/ i = n + 1 \/ i = n + 2
    BY <1>2, <1>3, <2>2, <2>3
  <2> QED BY <1>2, <1>9, <2>4 DEF s, n
<1> QED BY <1>6, <1>7, <1>8, <1>9

LEMMA NextPaired == GraphIInv /\ ShownInSchedule /\ Paired /\ [GraphNext]_graphvars => Paired'
<1> SUFFICES ASSUME GraphIInv, ShownInSchedule, Paired, [GraphNext]_graphvars PROVE Paired'
  OBVIOUS
<1>1. ASSUME NEW m \in Match, AddMatch(m) PROVE Paired'
  <2> DEFINE n == Len(schedule) + 1
  <2>1. /\ Results' = Results \union {n} /\ n \notin Results /\ schedule'[n] = m
        /\ \A i \in Results : schedule'[i] = schedule[i]
    BY <1>1, ResultsAfter DEF AddMatch, GraphIInv
  <2> HIDE DEF n
  <2>2. ASSUME NEW t, NEW u
        PROVE  Between(t, u)' = IF {m.home, m.away} = {t, u} THEN Between(t, u) \union {n} ELSE Between(t, u)
    BY <2>1 DEF Between
  <2>3. ASSUME NEW t, NEW u PROVE n \notin Between(t, u)
    BY <2>1 DEF Between
  <2> SUFFICES ASSUME NEW t \in Teams, NEW after, after = GamesOf(t)' PROVE PairedIn(t, after)'
    BY DEF Paired
  <2>5. PICK s : s = GamesOf(t)
    OBVIOUS
  <2>6. /\ Len(s) \in Nat /\ Len(after) \in Nat /\ Len(s) <= Len(after)
        /\ \A i \in 1 .. Len(s) : after[i] = s[i]
        /\ \A i \in 1 .. Len(after) : \/ i \in 1 .. Len(s)
                                      \/ t = m.home /\ after[i].opponent = m.away
                                      \/ t = m.away /\ after[i].opponent = m.home
        /\ t = m.home => \E i \in 1 .. Len(after) : after[i].opponent = m.away
        /\ t = m.away => \E i \in 1 .. Len(after) : after[i].opponent = m.home
        /\ m.home # m.away => Len(after) <= Len(s) + 1
    BY <1>1, <2>5, GamesGrow
  <2>7. /\ \A u \in Teams \ {t} : Between(t, u) # {} => \E i \in 1 .. Len(s) : s[i].opponent = u
        /\ \A u \in Teams \ {t} : \A i, j \in 1 .. Len(s) :
             i # j /\ s[i].opponent = u /\ s[j].opponent = u => \E k, l \in Between(t, u) : k # l
    BY <2>5 DEF Paired, PairedIn
  <2>8. ASSUME NEW i \in 1 .. Len(s), s[i].opponent # t
        PROVE  Between(t, s[i].opponent) # {}
    <3>1. t \in DOMAIN games /\ s = games[t]
      BY <2>5, <2>6 DEF GamesOf
    <3>2. PICK k \in Results : ShownBy(schedule[k], t, s[i])
      BY <3>1 DEF ShownInSchedule
    <3> QED BY <3>2 DEF ShownBy, Between
  <2>9. ASSUME NEW u \in Teams \ {t}, Between(t, u)' # {}
        PROVE  \E i \in 1 .. Len(after) : after[i].opponent = u
    <3>1. CASE {m.home, m.away} = {t, u}
      <4>1. (t = m.home /\ u = m.away) \/ (t = m.away /\ u = m.home)
        BY <2>9, <3>1
      <4> QED BY <2>6, <4>1
    <3>2. CASE {m.home, m.away} # {t, u}
      <4>1. PICK i \in 1 .. Len(s) : s[i].opponent = u
        BY <2>2, <2>7, <2>9, <3>2
      <4>2. i \in 1 .. Len(after) /\ after[i] = s[i]
        BY <2>6
      <4> QED BY <4>1, <4>2
    <3> QED BY <3>1, <3>2
  <2>10. ASSUME NEW i \in 1 .. Len(after), NEW j \in 1 .. Len(after), i # j,
                NEW u \in Teams \ {t}, after[i].opponent = u, after[j].opponent = u
         PROVE  \E k, l \in Between(t, u)' : k # l
    <3>1. CASE i \in 1 .. Len(s) /\ j \in 1 .. Len(s)
      <4>1. s[i].opponent = u /\ s[j].opponent = u
        BY <2>6, <2>10, <3>1
      <4>2. PICK k \in Between(t, u), l \in Between(t, u) : k # l
        BY <2>7, <2>10, <3>1, <4>1
      <4> QED BY <2>2, <4>2
    <3>2. ASSUME NEW x \in 1 .. Len(after), NEW y \in 1 .. Len(after), x # y, x \notin 1 .. Len(s),
                 after[x].opponent = u, after[y].opponent = u
          PROVE  \E k, l \in Between(t, u)' : k # l
      <4>1. (t = m.home /\ u = m.away) \/ (t = m.away /\ u = m.home)
        BY <2>6, <3>2
      <4>2. Between(t, u)' = Between(t, u) \union {n}
        BY <2>2, <4>1
      <4>3. m.home # m.away
        BY <2>10, <4>1
      <4>4. y \in 1 .. Len(s)
        BY <2>6, <3>2, <4>3
      <4>5. s[y].opponent = u
        BY <2>6, <3>2, <4>4
      <4>6. PICK k : k \in Between(t, u)
        BY <2>8, <2>10, <4>4, <4>5
      <4>7. k # n
        BY <2>3, <4>6
      <4> QED BY <4>2, <4>6, <4>7
    <3> QED BY <2>10, <3>1, <3>2
  <2> QED BY <2>9, <2>10 DEF PairedIn
<1>2. ASSUME games' = games, Results' = Results, \A i \in Results : schedule'[i] = schedule[i]
      PROVE  Paired'
  <2>1. \A t, u : Between(t, u)' = Between(t, u)
    BY <1>2 DEF Between
  <2>2. \A t : GamesOf(t)' = GamesOf(t)
    BY <1>2 DEF GamesOf
  <2> QED BY <2>1, <2>2 DEF Paired, PairedIn
<1>3. ASSUME NEW m \in Match, SkipMatch(m) PROVE Paired'
  <2>1. Results' = Results /\ \A i \in Results : schedule'[i] = schedule[i]
    BY <1>3, ResultsAfter DEF SkipMatch, GraphIInv
  <2> QED BY <1>2, <1>3, <2>1 DEF SkipMatch
<1>4. CASE UNCHANGED graphvars
  <2>1. Results' = Results /\ \A i \in Results : schedule'[i] = schedule[i]
    BY <1>4 DEF graphvars, Results
  <2> QED BY <1>2, <1>4, <2>1 DEF graphvars
<1> QED BY <1>1, <1>3, <1>4 DEF GraphNext

LEMMA InitPaired == GraphInit => Paired
<1> SUFFICES ASSUME GraphInit PROVE Paired
  OBVIOUS
<1>1. \A t, u : Between(t, u) = {}
  BY DEF GraphInit, Between, Results
<1>2. \A t : GamesOf(t) = <<>>
  BY DEF GraphInit, EmptyDict, GamesOf
<1> QED BY <1>1, <1>2 DEF Paired, PairedIn

-----------------------------------------------------------------------------
\* What the table is computed from; each part is an invariant of the graph.
TableInv == GraphIInv /\ ShownInRecord /\ ShownInSchedule /\ Paired /\ ExclusionIsExact

LEMMA WithoutIsRecord ==
  ASSUME GraphIInv, NEW u, NEW left
  PROVE  RecordWithout(u, left) \in Record
<1> DEFINE H(o) == {i \in Results \ left : schedule[i].home = u /\ HomeOutcome(schedule[i]) = o}
           A(o) == {i \in Results \ left : schedule[i].away = u /\ AwayOutcome(schedule[i]) = o}
<1>1. IsFiniteSet(Results)
  BY ResultsFinite DEF GraphIInv
<1>2. ASSUME NEW o PROVE Cardinality(H(o)) \in Nat /\ Cardinality(A(o)) \in Nat
  <2>1. H(o) \in SUBSET Results /\ A(o) \in SUBSET Results
    OBVIOUS
  <2> QED BY <1>1, <2>1, FS_Subset, FS_CardinalityType
<1>3. RecordWithout(u, left) = [o \in Outcomes |-> Cardinality(H(o)) + Cardinality(A(o))]
  BY DEF RecordWithout
<1> HIDE DEF H, A
<1> QED BY <1>2, <1>3 DEF Record

LEMMA WinningPctType ==
  ASSUME NEW rec \in Record, NEW parts \in Nat
  PROVE  WinningPct(rec, parts) \in Nat /\ Played(rec) \in Nat
<1>1. /\ rec["W"] \in Nat /\ rec["L"] \in Nat /\ rec["T"] \in Nat
      /\ One \in Nat
  BY TableAssumption DEF Record, Outcomes, TableAssumption
<1>2. Played(rec) \in Nat
  BY <1>1 DEF Played
<1>3. ASSUME NEW m \in Nat, NEW n \in Nat PROVE m * n \in Nat
  OBVIOUS
<1>4. rec["W"] * One \in Nat /\ rec["T"] * parts \in Nat
  BY <1>1, <1>3
<1>5. rec["W"] * One + rec["T"] * parts \in Nat
  BY <1>4
<1>6. ASSUME NEW m \in Nat, NEW n \in Nat, n # 0 PROVE m \div n \in Nat
  BY <1>6, SMT
<1> QED BY <1>2, <1>5, <1>6 DEF WinningPct

LEMMA OneToOne ==
  ASSUME NEW S, NEW T, NEW b \in [S -> T],
         \A x, y \in S : b[x] = b[y] => x = y, \A y \in T : \E x \in S : b[x] = y
  PROVE  b \in Bijection(S, T)
BY DEF Bijection, Injection, Surjection, IsInjective

\* Where teams meet once at most, the games of a team are its opponents.
LEMMA GamesAreOpponents ==
  ASSUME TableInv, MetOnce, NEW t \in DOMAIN record,
         NEW opp, opp = [i \in 1 .. Len(games[t]) |-> games[t][i].opponent]
  PROVE  /\ opp \in Bijection(1 .. Len(games[t]), Opponents(t))
         /\ \A i \in 1 .. Len(games[t]) :
              /\ opp[i] \in DOMAIN record /\ opp[i] # t
              /\ Excluding(games[t][i].opponent, games[t][i].outcome)
                   = RecordWithout(opp[i], Between(t, opp[i]))
<1> DEFINE s == games[t]
<1>1. t \in Teams /\ t \in DOMAIN games /\ s \in Seq(Game) /\ s = GamesOf(t)
  BY DEF TableInv, GraphIInv, GraphTypeOK, GamesOf
<1>2. IsFiniteSet(Results)
  BY ResultsFinite DEF TableInv, GraphIInv
<1>3. \A u : IsFiniteSet(Between(t, u)) /\ Cardinality(Between(t, u)) \in Nat
  <2>1. \A u : Between(t, u) \in SUBSET Results
    BY DEF Between
  <2> QED BY <1>2, <2>1, FS_Subset, FS_CardinalityType
<1>4. \A u \in Teams : Cardinality(Between(t, u)) <= IF t = u THEN 0 ELSE 1
  BY <1>1 DEF MetOnce
<1>5. Between(t, t) = {}
  BY <1>1, <1>3, <1>4, FS_EmptySet
<1> HIDE DEF s
<1>6. ASSUME NEW i \in 1 .. Len(s)
      PROVE  s[i].opponent \in Teams /\ s[i].opponent \in DOMAIN record /\ s[i] \in Game
  <2>1. s[i] \in Game
    BY <1>1, ElementOfSeq
  <2>2. s[i].opponent \in Teams
    BY <2>1 DEF Game
  <2>3. s[i].opponent \in DOMAIN record
    BY <1>1 DEF TableInv, GraphIInv, Counted, s
  <2> QED BY <2>1, <2>2, <2>3
<1>7. ASSUME NEW i \in 1 .. Len(s)
      PROVE  s[i].opponent # t /\ Between(t, s[i].opponent) # {}
  <2>1. PICK k \in Results : ShownBy(schedule[k], t, s[i])
    BY <1>1 DEF TableInv, ShownInSchedule, s
  <2>2. k \in Between(t, s[i].opponent)
    BY <2>1 DEF ShownBy, Between
  <2> QED BY <1>5, <2>2
<1>8. ASSUME NEW i \in 1 .. Len(s) PROVE Cardinality(Between(t, s[i].opponent)) = 1
  <2>1. Cardinality(Between(t, s[i].opponent)) # 0
    BY <1>3, <1>7, FS_EmptySet
  <2>2. Cardinality(Between(t, s[i].opponent)) <= 1
    BY <1>4, <1>6, <1>7
  <2> QED BY <1>3, <2>1, <2>2
<1>9. ASSUME NEW i \in 1 .. Len(s)
      PROVE  Excluding(s[i].opponent, s[i].outcome)
               = RecordWithout(s[i].opponent, Between(t, s[i].opponent))
  BY <1>1, <1>7, <1>8 DEF TableInv, ExclusionIsExact, s
<1>10. PairedIn(t, s)
  BY <1>1 DEF TableInv, Paired
<1>11. opp \in [1 .. Len(s) -> Opponents(t)]
  BY <1>6, <1>7 DEF Opponents, s
<1>12. ASSUME NEW i \in 1 .. Len(s), NEW j \in 1 .. Len(s), opp[i] = opp[j] PROVE i = j
  <2>1. PICK x : Between(t, s[i].opponent) = {x}
    BY <1>3, <1>8, FS_Singleton
  <2>2. ~ \E k, l \in Between(t, s[i].opponent) : k # l
    BY <2>1
  <2>3. s[i].opponent = s[j].opponent
    BY <1>12 DEF s
  <2>4. s[i].opponent \in Teams \ {t}
    BY <1>6, <1>7
  <2> QED BY <1>10, <2>2, <2>3, <2>4 DEF PairedIn
<1>13. ASSUME NEW u \in Opponents(t) PROVE \E i \in 1 .. Len(s) : opp[i] = u
  BY <1>10 DEF Opponents, PairedIn, s
<1>14. opp \in Bijection(1 .. Len(s), Opponents(t))
  BY <1>11, <1>12, <1>13, OneToOne
<1>15. \A i \in 1 .. Len(s) : opp[i] = s[i].opponent
  BY DEF s
<1> QED BY <1>6, <1>7, <1>9, <1>14, <1>15 DEF s

LEMMA OwpIsE2 ==
  ASSUME TableInv, MetOnce, NEW t \in DOMAIN record
  PROVE  Owp(t) = E2(t) /\ Owp(t) \in Nat
<1> DEFINE n == Len(games[t])
           opp == [i \in 1 .. n |-> games[t][i].opponent]
           left(i) == Excluding(games[t][i].opponent, games[t][i].outcome)
           without(u) == RecordWithout(u, Between(t, u))
           S == {i \in 1 .. n : Played(left(i)) > 0}
           T == {u \in Opponents(t) : Played(without(u)) > 0}
           g == [i \in S |-> WinningPct(left(i), OwpTieParts)]
           k == [u \in T |-> WinningPct(without(u), OwpTieParts)]
           b == [i \in S |-> opp[i]]
<1>0. OwpTieParts \in Nat /\ GraphIInv /\ n \in Nat
  BY TableAssumption DEF TableAssumption, TableInv, GraphIInv, GraphTypeOK
<1>1. /\ opp \in Bijection(1 .. n, Opponents(t))
      /\ \A i \in 1 .. n : left(i) = without(opp[i])
  BY GamesAreOpponents
<1>2. \A u : without(u) \in Record
  BY <1>0, WithoutIsRecord
<1>3. Owp(t) = Mean(g) /\ E2(t) = Mean(k)
  BY DEF Owp, E2
<1> HIDE DEF n, opp, left, without
<1>4. /\ opp \in [1 .. n -> Opponents(t)]
      /\ \A i, j \in 1 .. n : opp[i] = opp[j] => i = j
      /\ \A u \in Opponents(t) : \E i \in 1 .. n : opp[i] = u
  BY <1>1 DEF Bijection, Injection, Surjection, IsInjective
<1>5. DOMAIN g = S /\ DOMAIN k = T
  OBVIOUS
<1>6. b \in Bijection(S, T)
  <2>1. b \in [S -> T]
    BY <1>1, <1>4
  <2>2. \A i, j \in S : b[i] = b[j] => i = j
    BY <1>4
  <2>3. ASSUME NEW u \in T PROVE \E i \in S : b[i] = u
    <3>1. PICK i \in 1 .. n : opp[i] = u
      BY <1>4
    <3>2. i \in S
      BY <1>1, <3>1
    <3> QED BY <3>1, <3>2
  <2> HIDE DEF b, S, T
  <2> QED BY <2>1, <2>2, <2>3 DEF Bijection, Injection, Surjection, IsInjective
<1>7. IsFiniteSet(S)
  <2>1. IsFiniteSet(1 .. n)
    BY <1>0, FS_Interval
  <2>2. S \in SUBSET (1 .. n)
    OBVIOUS
  <2> HIDE DEF S
  <2> QED BY <2>1, <2>2, FS_Subset
<1>8. ASSUME NEW i \in S PROVE g[i] \in Nat /\ g[i] = k[b[i]]
  <2>1. b[i] = opp[i] /\ b[i] \in T
    BY <1>1, <1>4
  <2>2. left(i) = without(opp[i])
    BY <1>1
  <2>3. g[i] = WinningPct(without(opp[i]), OwpTieParts)
    BY <2>2
  <2>4. k[b[i]] = WinningPct(without(opp[i]), OwpTieParts)
    BY <2>1
  <2> QED BY <1>0, <1>2, <2>3, <2>4, WinningPctType
<1> HIDE DEF g, k, b, S, T
<1> QED BY <1>3, <1>5, <1>6, <1>7, <1>8, MeanSame, MeanType

LEMMA OowpIsE3 ==
  ASSUME TableInv, MetOnce, NEW t \in DOMAIN record
  PROVE  Oowp(t) = E3(t) /\ Oowp(t) \in Nat
<1> DEFINE n == Len(games[t])
           opp == [i \in 1 .. n |-> games[t][i].opponent]
           g == [i \in 1 .. n |-> Owp(games[t][i].opponent)]
           k == [u \in Opponents(t) |-> E2(u)]
<1>0. n \in Nat /\ IsFiniteSet(1 .. n)
  <2>1. n \in Nat
    BY DEF TableInv, GraphIInv, GraphTypeOK
  <2> HIDE DEF n
  <2> QED BY <2>1, FS_Interval
<1>1. /\ opp \in Bijection(1 .. n, Opponents(t))
      /\ \A i \in 1 .. n : opp[i] \in DOMAIN record
  BY GamesAreOpponents
<1>2. Oowp(t) = Mean(g) /\ E3(t) = Mean(k) /\ DOMAIN g = 1 .. n /\ DOMAIN k = Opponents(t)
  BY DEF Oowp, E3
<1>3. ASSUME NEW i \in 1 .. n PROVE g[i] \in Nat /\ g[i] = k[opp[i]]
  <2>1. opp[i] = games[t][i].opponent
    OBVIOUS
  <2>2. opp[i] \in Opponents(t) /\ opp[i] \in DOMAIN record
    BY <1>1 DEF Bijection, Surjection
  <2>3. g[i] = Owp(opp[i]) /\ k[opp[i]] = E2(opp[i])
    BY <2>1, <2>2
  <2> QED BY <2>2, <2>3, OwpIsE2
<1> HIDE DEF n, opp, g, k
<1> QED BY <1>0, <1>1, <1>2, <1>3, MeanSame, MeanType

LEMMA WpIsE1 ==
  ASSUME TableInv, NEW t \in DOMAIN record
  PROVE  WinningPct(record[t], WpTieParts) = E1(t) /\ E1(t) \in Nat
<1>1. t \in Teams /\ record[t] \in Record /\ RecordOf(record, t) = record[t] /\ GraphIInv
  BY DEF TableInv, GraphIInv, GraphTypeOK, RecordOf
<1>2. WpTieParts \in Nat
  BY TableAssumption DEF TableAssumption
<1>3. RecordWithout(t, {}) = [o \in Outcomes |->
        Cardinality(HomeGames(t, o)) + Cardinality(AwayGames(t, o))]
  <2>1. Results \ {} = Results
    OBVIOUS
  <2> QED BY <2>1 DEF RecordWithout, HomeGames, AwayGames
<1>4. record[t] = [o \in Outcomes |-> record[t][o]]
  BY <1>1 DEF Record
<1>5. \A o \in Outcomes : record[t][o] = Cardinality(HomeGames(t, o)) + Cardinality(AwayGames(t, o))
  BY <1>1 DEF TableInv, ShownInRecord
<1>6. record[t] = RecordWithout(t, {})
  BY <1>3, <1>4, <1>5
<1> QED BY <1>1, <1>2, <1>6, WinningPctType DEF E1

\* The table and the formula, of the graph of one schedule.
LEMMA RpiIsFormula ==
  ASSUME TableInv, MetOnce, NEW t \in DOMAIN record
  PROVE  Rpi(t) = Formula(t) /\ Rpi(t) \in Nat
BY WpIsE1, OwpIsE2, OowpIsE3 DEF Rpi, Formula

LEMMA TableInvariant == GraphSpec => []TableInv
BY GraphInvariant, ExclusionIsExactOnce, InitShown, NextShown, InitPaired, NextPaired, PTL
   DEF GraphSpec, TableInv

(* For every schedule in which teams meet once at most, whatever the tie   *)
(* weights, the table of compute_rpi is the published formula: the lists of*)
(* games, walked twice with a game taken back out each time, and divided by*)
(* their lengths, come to the means over the opponents.                    *)
THEOREM TableFollowsFormula == GraphSpec => []TableIsTheFormula
<1>1. TableInv => TableIsTheFormula
  BY RpiIsFormula DEF TableIsTheFormula
<1> QED
  BY <1>1, TableInvariant, PTL

-----------------------------------------------------------------------------
(* Ranks.  Each team of the table comes in at a place of its own, so no two*)
(* rows tie; a row that another one beats is beaten by more rows than it.  *)
Starts(t) == UNION {{2 * i : i \in {j \in DOMAIN schedule : /\ IsPlayed(schedule[j])
                                                            /\ schedule[j].home = t}},
                    {2 * i + 1 : i \in {j \in DOMAIN schedule : /\ IsPlayed(schedule[j])
                                                                /\ schedule[j].away = t}}}

LEMMA StartOf ==
  ASSUME TableInv, NEW t, NEW n \in Starts(t)
  PROVE  /\ n \in 0 .. 2 * Len(schedule) + 1
         /\ \E i \in 1 .. Len(schedule) : \/ n = 2 * i /\ schedule[i].home = t
                                          \/ n = 2 * i + 1 /\ schedule[i].away = t
<1>1. DOMAIN schedule = 1 .. Len(schedule) /\ Len(schedule) \in Nat
  BY DEF TableInv, GraphIInv, GraphTypeOK
<1>2. PICK i \in DOMAIN schedule : \/ n = 2 * i /\ schedule[i].home = t
                                   \/ n = 2 * i + 1 /\ schedule[i].away = t
  BY DEF Starts
<1>3. i \in Int /\ 1 <= i /\ i <= Len(schedule)
  BY <1>1
<1>4. n \in 0 .. 2 * Len(schedule) + 1
  BY <1>1, <1>2, <1>3
<1> QED BY <1>1, <1>2, <1>4

LEMMA PlaceIsStart == ASSUME TableInv, NEW t \in DOMAIN record PROVE Place(t) \in Starts(t)
<1>1. 1 \in 1 .. Len(games[t]) /\ t \in DOMAIN games
  BY DEF TableInv, GraphIInv, GraphTypeOK, RecordCountsGames
<1>2. PICK k \in Results : schedule[k].home = t \/ schedule[k].away = t
  BY <1>1 DEF TableInv, ShownInSchedule, ShownBy
<1>3. k \in DOMAIN schedule /\ IsPlayed(schedule[k])
  BY GraphAssumption DEF Results, TableInv, GraphIInv, GraphTypeOK, IsPlayed
<1>4. Starts(t) # {}
  BY <1>2, <1>3 DEF Starts
<1>5. Starts(t) \subseteq Nat
  <2>1. ASSUME NEW n \in Starts(t) PROVE n \in Nat
    <3>1. Len(schedule) \in Nat
      BY DEF TableInv, GraphIInv, GraphTypeOK
    <3> QED BY <3>1, StartOf
  <2> QED BY <2>1
<1>6. Place(t) = CHOOSE x \in Starts(t) : \A y \in Starts(t) : x <= y
  BY DEF Place, Starts, Min
<1>7. PICK x \in Starts(t) : \A y \in Starts(t) : ~(y < x)
  BY <1>4, <1>5, Least
<1>8. \A y \in Starts(t) : x <= y
  BY <1>5, <1>7
<1> QED BY <1>6, <1>8

LEMMA PlacesDiffer ==
  ASSUME TableInv, NEW t \in DOMAIN record, NEW u \in DOMAIN record, Place(t) = Place(u)
  PROVE  t = u
<1>1. PICK i \in 1 .. Len(schedule) : \/ Place(t) = 2 * i /\ schedule[i].home = t
                                      \/ Place(t) = 2 * i + 1 /\ schedule[i].away = t
  BY PlaceIsStart, StartOf
<1>2. PICK j \in 1 .. Len(schedule) : \/ Place(u) = 2 * j /\ schedule[j].home = u
                                      \/ Place(u) = 2 * j + 1 /\ schedule[j].away = u
  BY PlaceIsStart, StartOf
<1>3. i \in Int /\ j \in Int
  OBVIOUS
<1>4. /\ 2 * i = 2 * j => i = j
      /\ 2 * i + 1 = 2 * j + 1 => i = j
      /\ 2 * i # 2 * j + 1 /\ 2 * i + 1 # 2 * j
  BY <1>3
<1> QED BY <1>1, <1>2, <1>4

LEMMA TeamsFinite == TableInv => IsFiniteSet(DOMAIN record)
<1> SUFFICES ASSUME TableInv PROVE IsFiniteSet(DOMAIN record)
  OBVIOUS
<1> DEFINE N == 2 * Len(schedule) + 1
           f == [t \in DOMAIN record |-> Place(t)]
<1>1. N \in Int
  BY DEF TableInv, GraphIInv, GraphTypeOK
<1>2. f \in [DOMAIN record -> 0 .. N]
  BY PlaceIsStart, StartOf
<1>3. \A t, u \in DOMAIN record : f[t] = f[u] => t = u
  BY PlacesDiffer
<1> HIDE DEF f, N
<1>4. f \in Injection(DOMAIN record, 0 .. N)
  BY <1>2, <1>3 DEF Injection, IsInjective
<1>5. IsFiniteSet(0 .. N)
  BY <1>1, FS_Interval
<1> QED BY <1>4, <1>5, FS_Injection

\* The rows that come before a given one.
Before(row, rows) == {r \in rows : r.rpi > row.rpi \/ (r.rpi = row.rpi /\ r.place < row.place)}

\* Rows that can be ranked: finitely many, of distinct places.
Rankable(rows) == /\ IsFiniteSet(rows)
                  /\ \A r \in rows : r.rpi \in Nat /\ r.place \in Nat
                  /\ \A r, q \in rows : r.place = q.place => r = q

LEMMA RankType ==
  ASSUME NEW rows, Rankable(rows), NEW r \in rows
  PROVE  /\ IsFiniteSet(Before(r, rows)) /\ Cardinality(Before(r, rows)) \in Nat
         /\ Rank(r, rows) = 1 + Cardinality(Before(r, rows))
         /\ Rank(r, rows) \in 1 .. Cardinality(rows)
<1>1. Before(r, rows) \in SUBSET rows /\ r \notin Before(r, rows)
  BY DEF Before, Rankable
<1>2. /\ IsFiniteSet(Before(r, rows))
      /\ Cardinality(Before(r, rows)) <= Cardinality(rows)
      /\ Cardinality(Before(r, rows)) # Cardinality(rows)
  BY <1>1, FS_Subset DEF Rankable
<1>3. Cardinality(Before(r, rows)) \in Nat /\ Cardinality(rows) \in Nat
  BY <1>2, FS_CardinalityType DEF Rankable
<1>4. Rank(r, rows) = 1 + Cardinality(Before(r, rows))
  BY DEF Rank, Before
<1> QED BY <1>2, <1>3, <1>4

LEMMA RankOrder ==
  ASSUME NEW rows, Rankable(rows), NEW r \in rows, NEW q \in Before(r, rows)
  PROVE  Rank(q, rows) < Rank(r, rows)
<1>1. q \in rows /\ q \notin Before(q, rows)
  BY DEF Before, Rankable
<1>2. Before(q, rows) \in SUBSET Before(r, rows)
  <2>1. ASSUME NEW p \in Before(q, rows) PROVE p \in Before(r, rows)
    <3>1. /\ p \in rows /\ p.rpi \in Nat /\ q.rpi \in Nat /\ r.rpi \in Nat
          /\ p.place \in Nat /\ q.place \in Nat /\ r.place \in Nat
      BY <1>1 DEF Before, Rankable
    <3>2. /\ p.rpi > q.rpi \/ (p.rpi = q.rpi /\ p.place < q.place)
          /\ q.rpi > r.rpi \/ (q.rpi = r.rpi /\ q.place < r.place)
      BY DEF Before
    <3>3. p.rpi > r.rpi \/ (p.rpi = r.rpi /\ p.place < r.place)
      BY <3>1, <3>2
    <3> QED BY <3>1, <3>3 DEF Before
  <2> QED BY <2>1
<1>3. /\ Cardinality(Before(q, rows)) <= Cardinality(Before(r, rows))
      /\ Cardinality(Before(q, rows)) # Cardinality(Before(r, rows))
  BY <1>1, <1>2, RankType, FS_Subset
<1> QED BY <1>1, <1>3, RankType

\* The ranks are 1 .. n, once each.
LEMMA RanksAreAll ==
  ASSUME NEW rows, Rankable(rows)
  PROVE  {Rank(r, rows) : r \in rows} = 1 .. Cardinality(rows)
<1> DEFINE N == Cardinality(rows)
           f == [r \in rows |-> Rank(r, rows)]
<1>1. IsFiniteSet(rows) /\ N \in Nat
  BY FS_CardinalityType DEF Rankable
<1>2. f \in [rows -> 1 .. N]
  BY RankType
<1>3. ASSUME NEW r \in rows, NEW q \in rows, f[r] = f[q] PROVE r = q
  <2>1. Rank(r, rows) = Rank(q, rows) /\ Rank(r, rows) \in Int
    BY <1>3, RankType
  <2>2. q \notin Before(r, rows) /\ r \notin Before(q, rows)
    BY <2>1, RankOrder
  <2>3. /\ r.rpi \in Nat /\ q.rpi \in Nat /\ r.place \in Nat /\ q.place \in Nat
        /\ r.place = q.place => r = q
    BY DEF Rankable
  <2>4. r.place = q.place
    BY <2>2, <2>3 DEF Before
  <2> QED BY <2>3, <2>4
<1>4. f \in Injection(rows, 1 .. N)
  <2> HIDE DEF f, N
  <2> QED BY <1>2, <1>3 DEF Injection, IsInjective
<1>5. IsFiniteSet(1 .. N) /\ Cardinality(1 .. N) = N
  <2> HIDE DEF N
  <2>1. Cardinality(1 .. N) = IF 1 > N THEN 0 ELSE N - 1 + 1
    BY <1>1, FS_Interval
  <2> QED BY <1>1, <2>1, FS_Interval
<1>6. f \in Surjection(rows, 1 .. N)
  <2> HIDE DEF f
  <2> QED BY <1>4, <1>5, FS_Injection
<1>7. \A n \in 1 .. N : \E r \in rows : f[r] = n
  <2> HIDE DEF f, N
  <2> QED BY <1>6 DEF Surjection
<1> QED BY <1>2, <1>7

\* A rating that is better by more than one step of the report is reported higher.
LEMMA RoundedFollows ==
  ASSUME NEW a \in Nat, NEW b \in Nat, NEW ua, NEW ub,
         a > b + Unit, ub => 2 * (b % Unit) = Unit
  PROVE  Rounded(a, ua) > Rounded(b, ub)
<1>1. Unit \in Nat /\ Unit # 0
  BY TableAssumption DEF TableAssumption
<1>2. PICK qa \in Int, ra \in Int : /\ qa = a \div Unit /\ ra = a % Unit
                                    /\ a = Unit * qa + ra /\ 0 <= ra /\ ra < Unit
  BY <1>1, Z3
<1>3. PICK qb \in Int, rb \in Int : /\ qb = b \div Unit /\ rb = b % Unit
                                    /\ b = Unit * qb + rb /\ 0 <= rb /\ rb < Unit
  BY <1>1, Z3
<1>4. Unit * qa + ra > Unit * qb + rb + Unit
  BY <1>2, <1>3
<1>5. PICK d \in Int : qa = qb + 1 + d
  <2>1. qa - qb - 1 \in Int /\ qa = qb + 1 + (qa - qb - 1)
    OBVIOUS
  <2> QED BY <2>1
<1>6. Unit * qa = Unit * qb + Unit + Unit * d
  BY <1>1, <1>5
<1>7. Unit * d + ra > rb
  BY <1>1, <1>4, <1>6
<1>8. d >= 0
  <2>1. ASSUME d <= 0 - 1 PROVE Unit * d <= 0 - Unit
    BY <1>1, <2>1, Z3
  <2>2. Unit * d \in Int
    BY <1>1
  <2> QED BY <1>1, <1>2, <1>3, <1>7, <2>1, <2>2
<1>9. Rounded(a, ua) = qa + (IF ua \/ 2 * ra > Unit THEN 1 ELSE 0)
  BY <1>2 DEF Rounded
<1>10. Rounded(b, ub) = qb + (IF ub \/ 2 * rb > Unit THEN 1 ELSE 0)
  BY <1>3 DEF Rounded
<1>11. CASE d = 0
  <2>1. ra > rb
    BY <1>1, <1>7, <1>11
  <2>2. ub \/ 2 * rb > Unit => 2 * ra > Unit
    BY <1>1, <1>3, <2>1
  <2> QED BY <1>5, <1>9, <1>10, <1>11, <2>2
<1>12. CASE d # 0
  <2>1. qa >= qb + 2
    BY <1>5, <1>8, <1>12
  <2> QED BY <1>9, <1>10, <2>1
<1> QED BY <1>11, <1>12

LEMMA RowsRankable ==
  ASSUME TableInv, MetOnce, NEW up \in SUBSET HalfWay
  PROVE  Rankable(Rows(up)) /\ Cardinality(Rows(up)) = Cardinality(DOMAIN record)
<1> DEFINE row(t) == [team |-> t, rpi |-> Rounded(Rpi(t), t \in up), place |-> Place(t)]
           D == DOMAIN record
           b == [t \in D |-> row(t)]
<1>1. ASSUME NEW t \in D PROVE row(t).rpi \in Nat /\ row(t).place \in Nat
  <2>1. Rpi(t) \in Nat /\ Unit \in Nat /\ Unit # 0
    BY RpiIsFormula, TableAssumption DEF TableAssumption
  <2>2. Rpi(t) \div Unit \in Nat
    BY <2>1, SMT
  <2>3. Rounded(Rpi(t), t \in up) \in Nat
    BY <2>2 DEF Rounded
  <2>4. Place(t) \in Nat
    <3>1. Len(schedule) \in Nat
      BY DEF TableInv, GraphIInv, GraphTypeOK
    <3> QED BY <3>1, PlaceIsStart, StartOf
  <2> QED BY <2>3, <2>4
<1>2. Rows(up) = {row(t) : t \in D}
  BY DEF Rows
<1>3. \A t \in D : row(t).team = t /\ row(t).place = Place(t)
  OBVIOUS
<1> HIDE DEF row
<1>4. b \in [D -> Rows(up)]
  BY <1>2
<1>5. \A t, u \in D : b[t] = b[u] => t = u
  BY <1>3
<1>6. \A r \in Rows(up) : \E t \in D : b[t] = r
  BY <1>2
<1> HIDE DEF b
<1>7. b \in Bijection(D, Rows(up))
  BY <1>4, <1>5, <1>6, OneToOne
<1>8. IsFiniteSet(Rows(up)) /\ Cardinality(Rows(up)) = Cardinality(D)
  BY <1>7, TeamsFinite, FS_Bijection DEF ExistsBijection
<1>9. \A r, q \in Rows(up) : r.place = q.place => r = q
  BY <1>2, <1>3, PlacesDiffer
<1> QED BY <1>1, <1>2, <1>8, <1>9 DEF Rankable

\* A team that the formula puts ahead by more than a step has the smaller rank.
LEMMA BetterRanksHigher ==
  ASSUME TableInv, MetOnce, NEW up \in SUBSET HalfWay,
         NEW x \in Table(up), NEW y \in Table(up), Formula(x.team) > Formula(y.team) + Unit
  PROVE  x.rank < y.rank
<1> DEFINE rows == Rows(up)
<1>1. PICK r \in rows : x = [team |-> r.team, rank |-> Rank(r, rows)]
  BY DEF Table
<1>2. PICK q \in rows : y = [team |-> q.team, rank |-> Rank(q, rows)]
  BY DEF Table
<1>3. PICK t \in DOMAIN record : r.team = t /\ r.rpi = Rounded(Rpi(t), t \in up)
  BY DEF Rows
<1>4. PICK u \in DOMAIN record : q.team = u /\ q.rpi = Rounded(Rpi(u), u \in up)
  BY DEF Rows
<1>5. /\ Rpi(t) \in Nat /\ Rpi(u) \in Nat /\ Rpi(t) > Rpi(u) + Unit
      /\ u \in up => 2 * (Rpi(u) % Unit) = Unit
  BY <1>1, <1>2, <1>3, <1>4, RpiIsFormula DEF HalfWay
<1>6. Rounded(Rpi(t), t \in up) > Rounded(Rpi(u), u \in up)
  <2> DEFINE ut == t \in up
             uu == u \in up
  <2>1. uu => 2 * (Rpi(u) % Unit) = Unit
    BY <1>5
  <2> HIDE DEF ut, uu
  <2>2. Rounded(Rpi(t), ut) > Rounded(Rpi(u), uu)
    BY <1>5, <2>1, RoundedFollows
  <2> QED BY <2>2 DEF ut, uu
<1>7. r \in Before(q, rows)
  BY <1>3, <1>4, <1>6 DEF Before
<1>8. Rank(r, rows) < Rank(q, rows)
  BY <1>7, RowsRankable, RankOrder
<1> QED BY <1>1, <1>2, <1>8

\* A lookup answers with the best rank among the teams it matches.
LEMMA LookupIsBest ==
  ASSUME NEW table, \A r \in table : r.rank \in Nat, NEW containing,
         NEW y \in table, y.team \in containing
  PROVE  /\ TeamRow(containing, table) \in table
         /\ TeamRow(containing, table).rank <= y.rank
<1> DEFINE found == {r \in table : r.team \in containing}
           ranks == {r.rank : r \in found}
<1>1. ranks \subseteq Nat /\ ranks # {}
  OBVIOUS
<1>2. PICK n \in ranks : \A m \in ranks : ~(m < n)
  <2> HIDE DEF ranks
  <2> QED BY <1>1, Least
<1>3. PICK r \in found : r.rank = n
  BY <1>2
<1>4. \A q \in found : r.rank <= q.rank
  BY <1>1, <1>2, <1>3
<1>5. TeamRow(containing, table) = CHOOSE q \in found : \A p \in found : q.rank <= p.rank
  BY DEF TeamRow
<1> HIDE DEF ranks
<1>6. /\ TeamRow(containing, table) \in found
      /\ \A q \in found : TeamRow(containing, table).rank <= q.rank
  <2> HIDE DEF found
  <2> QED BY <1>4, <1>5
<1> QED BY <1>6

LEMMA RanksFollowOnce == TableInv => RanksFollowTheFormula
<1> SUFFICES ASSUME TableInv, MetOnce, NEW up \in SUBSET HalfWay,
                    NEW table, table = Table(up),
                    NEW rated, rated = {[row |-> r, formula |-> Formula(r.team)] : r \in table}
             PROVE  /\ {r.rank : r \in table} = 1 .. Cardinality(DOMAIN record)
                    /\ \A x, y \in rated : x.formula > y.formula + Unit => x.row.rank < y.row.rank
                    /\ \A containing \in (SUBSET DOMAIN record) \ {{}} :
                         \A x, y \in rated :
                           x.row = TeamRow(containing, table) /\ y.row.team \in containing =>
                             y.formula <= x.formula + Unit
  BY DEF RanksFollowTheFormula
<1> DEFINE rows == Rows(up)
<1>1. Rankable(rows) /\ Cardinality(rows) = Cardinality(DOMAIN record)
  BY RowsRankable
<1>2. table = {[team |-> r.team, rank |-> Rank(r, rows)] : r \in rows}
  BY DEF Table
<1>3. \A r \in rows : r.team \in DOMAIN record
  BY DEF Rows
<1> HIDE DEF rows
<1>4. {r.rank : r \in table} = 1 .. Cardinality(DOMAIN record)
  <2>1. ASSUME NEW r \in table PROVE \E q \in rows : r.rank = Rank(q, rows)
    BY <1>2
  <2>2. ASSUME NEW q \in rows PROVE \E r \in table : r.rank = Rank(q, rows)
    <3>1. [team |-> q.team, rank |-> Rank(q, rows)] \in table
      BY <1>2
    <3> QED BY <3>1
  <2>3. {r.rank : r \in table} = {Rank(r, rows) : r \in rows}
    BY <2>1, <2>2
  <2> QED BY <1>1, <2>3, RanksAreAll
<1>5. \A x \in rated : x.row \in table /\ x.formula = Formula(x.row.team)
  OBVIOUS
<1>6. ASSUME NEW x \in rated, NEW y \in rated, x.formula > y.formula + Unit
      PROVE  x.row.rank < y.row.rank
  BY <1>5, <1>6, BetterRanksHigher
<1>7. ASSUME NEW r \in table PROVE r.rank \in Nat /\ Formula(r.team) \in Nat
  <2>1. PICK q \in rows : r = [team |-> q.team, rank |-> Rank(q, rows)]
    BY <1>2
  <2>2. Rank(q, rows) \in Nat
    BY <1>1, RankType
  <2> QED BY <1>3, <2>1, <2>2, RpiIsFormula
<1>8. ASSUME NEW containing, NEW x \in rated, NEW y \in rated,
             x.row = TeamRow(containing, table), y.row.team \in containing
      PROVE  y.formula <= x.formula + Unit
  <2>1. x.row.rank <= y.row.rank
    BY <1>5, <1>7, <1>8, LookupIsBest
  <2>2. x.row.rank \in Nat /\ y.row.rank \in Nat /\ x.formula \in Nat /\ y.formula \in Nat
    BY <1>5, <1>7
  <2>3. Unit \in Nat
    BY TableAssumption DEF TableAssumption
  <2>4. ~(y.formula > x.formula + Unit)
    BY <1>6, <2>1, <2>2
  <2> QED BY <2>2, <2>3, <2>4
<1> QED BY <1>4, <1>6, <1>8

(* For every schedule in which teams meet once at most, and however the    *)
(* ratings that lie half-way between two reported values round: the ranks  *)
(* of compute_rpi are 1 .. n once each, a team that the formula puts ahead *)
(* by more than one step of the report ranks higher, and the row that      *)
(* get_team_rpi finds is beaten by no other match by more than that.       *)
THEOREM RanksFollow == GraphSpec => []RanksFollowTheFormula
<1> QED
  BY RanksFollowOnce, TableInvariant, PTL
=============================================================================
