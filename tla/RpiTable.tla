------------------------------ MODULE RpiTable ------------------------------
(***************************************************************************)
(* The table that compute_rpi of application/_rpi.py makes of the graph:   *)
(* winning percentage, opponents' and opponents' opponents' winning        *)
(* percentage, their weighted sum, and the ranks; and the lookup of a team *)
(* in it.  A value is an exact fraction, counted in parts of One.  The     *)
(* floats of the code come so close to it that they round to the same      *)
(* reported value, unless the fraction lies half-way between two.          *)
(***************************************************************************)
EXTENDS RpiGraph, SequencesExt

CONSTANTS One,          \* what stands for 1: divisible by every denominator met
          WpTieParts,   \* wp_tie_weight, in parts of One
          OwpTieParts,  \* owp_tie_weight, in parts of One
          Unit          \* 10^-digits, the step of what is reported, in parts of 4 * One

ASSUME TableAssumption == /\ One \in Nat \ {0}
                          /\ WpTieParts \in 0 .. One
                          /\ OwpTieParts \in 0 .. One
                          /\ Unit \in Nat \ {0}

Played(rec) == rec["W"] + rec["L"] + rec["T"]

\* _mean of the values of a list, or of what each member of a set is given; of no
\* values it is 0.
Mean(values) ==
  IF DOMAIN values = {} THEN 0 ELSE SumFunction(values) \div Cardinality(DOMAIN values)

\* winning_pct; of no games it is 0.
WinningPct(rec, tieParts) ==
  IF Played(rec) = 0 THEN 0
  ELSE (rec["W"] * One + rec["T"] * tieParts) \div Played(rec)

\* Mutants (suffix _M): a definition as a plausible bug of this code would have it.
\* _owp: a game whose opponent played no other one does not count.
Owp_M(t) == Mean([i \in 1 .. Len(games[t]) |->
                    WinningPct(Excluding(games[t][i].opponent, games[t][i].outcome), OwpTieParts)])
Owp(t) ==
  LET left(i) == Excluding(games[t][i].opponent, games[t][i].outcome)
      counted == {i \in 1 .. Len(games[t]) : Played(left(i)) > 0}
  IN  Mean([i \in counted |-> WinningPct(left(i), OwpTieParts)])

Oowp(t) == Mean([i \in 1 .. Len(games[t]) |-> Owp(games[t][i].opponent)])

\* Four times the RPI of a row of the table.
Rpi(t) == WinningPct(record[t], WpTieParts) + 2 * Owp(t) + Oowp(t)

\* round(rpi, digits); the teams in `up' are those half-way that the floats round up.
HalfWay == {t \in DOMAIN record : 2 * (Rpi(t) % Unit) = Unit}

Rounded(rpi, up) == rpi \div Unit + (IF up \/ 2 * (rpi % Unit) > Unit THEN 1 ELSE 0)

\* The order of the dict: a team comes in with its first match, the home side first.
Place(t) == Min(UNION {{2 * i : i \in {j \in DOMAIN schedule : /\ IsPlayed(schedule[j])
                                                               /\ schedule[j].home = t}},
                       {2 * i + 1 : i \in {j \in DOMAIN schedule : /\ IsPlayed(schedule[j])
                                                                   /\ schedule[j].away = t}}})

Rows(up) == {[team |-> t, rpi |-> Rounded(Rpi(t), t \in up), place |-> Place(t)] :
               t \in DOMAIN record}

\* The stable sort of the rows by their rpi, highest first.
Rank_M(row, rows) == Cardinality({r \in rows : r.rpi <= row.rpi})
Rank(row, rows) ==
  1 + Cardinality({r \in rows : r.rpi > row.rpi \/ (r.rpi = row.rpi /\ r.place < row.place)})

Table(up) == LET rows == Rows(up)
             IN  {[team |-> r.team, rank |-> Rank(r, rows)] : r \in rows}

\* get_team_rpi: the first row whose team is among those that contain the needle.
TeamRow(containing, table) ==
  LET found == {r \in table : r.team \in containing}
  IN  CHOOSE r \in found : \A q \in found : r.rank <= q.rank

-----------------------------------------------------------------------------
(* The formula of the docstring, taken from the results directly.          *)
Opponents(t) == {u \in Teams \ {t} : Between(t, u) # {}}

E1(t) == WinningPct(RecordWithout(t, {}), WpTieParts)

E2(t) == LET without(u) == RecordWithout(u, Between(t, u))
         IN  Mean([u \in {v \in Opponents(t) : Played(without(v)) > 0} |->
                     WinningPct(without(u), OwpTieParts)])

E3(t) == Mean([u \in Opponents(t) |-> E2(u)])

Formula(t) == E1(t) + 2 * E2(t) + E3(t)

MetOnce == \A t, u \in Teams : Cardinality(Between(t, u)) <= IF t = u THEN 0 ELSE 1

(* Where teams meet once at most, the table of compute_rpi is the published*)
(* formula, (E1 + 2*E2 + E3) / 4, in whatever order the results come.      *)
TableIsTheFormula == MetOnce => \A t \in DOMAIN record : Rpi(t) = Formula(t)

(* However the floats round, the ranks are 1 .. n, once each, and the order*)
(* of the feed decides between teams only if their ratings lie within one  *)
(* step of the report: a team that is better by more ranks higher.  So a   *)
(* lookup that several teams match, as an empty one does, answers with one *)
(* that no other of them beats by more than that step.                     *)
RanksFollowTheFormula ==
  MetOnce =>
    \A up \in SUBSET HalfWay :
      LET table == Table(up)
          rated == {[row |-> r, formula |-> Formula(r.team)] : r \in table}
      IN  /\ {r.rank : r \in table} = 1 .. Cardinality(DOMAIN record)
          /\ \A x, y \in rated : x.formula > y.formula + Unit => x.row.rank < y.row.rank
          /\ \A containing \in (SUBSET DOMAIN record) \ {{}} :
               \A x, y \in rated :
                 x.row = TeamRow(containing, table) /\ y.row.team \in containing =>
                   y.formula <= x.formula + Unit
=============================================================================
