--------------------------- MODULE Classification ---------------------------
(***************************************************************************)
(* classify_event_name of domain/classification.py, and the filters that   *)
(* are compared with it.  A name is known by what the function looks for   *)
(* in it: the words "ECNL RL", the gender words and a season.              *)
(***************************************************************************)
CONSTANT Seasons    \* season labels such as "2025-26"

Leagues == {"ECNL", "ECRL"}
Genders == {"girls", "boys"}

Name == [rl : BOOLEAN, words : SUBSET Genders, season : Seasons \union {""}]

\* What cannot be parsed is "".
ClassifyEventName(name) ==
  [league |-> IF name.rl THEN "ECRL" ELSE "ECNL",
   gender |-> CASE "girls" \in name.words -> "girls"
                [] name.words = {"boys"} -> "boys"
                [] OTHER -> "",
   season |-> name.season]

\* A filter that is not given.
None == "None"

Query == [league : Leagues \union {None, "invalid"}, gender : Genders \union {None, "invalid"},
          season : Seasons \union {None, ""}]

\* _validate_enum raises a ValueError for a league or gender it does not know.
Validates(query) == query.league # "invalid" /\ query.gender # "invalid"

Passes(filter, value) == filter = None \/ filter = value

OrgMatches(org, query) == Passes(query.league, org.league) /\ Passes(query.gender, org.gender)

EventMatches(event, query) == OrgMatches(event, query) /\ Passes(query.season, event.season)
=============================================================================
