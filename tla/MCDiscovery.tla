----------------------------- MODULE MCDiscovery -----------------------------
(* Discovery with, beside the state, the instant at which each call began. *)
EXTENDS Discovery, TLC

CONSTANTS o1, o2,    \* the two girls' organizations
          e1         \* an event of ECRL whose name says no gender

VARIABLE began

mcvars == <<vars, began>>

MCOrgKey == o1 :> [league |-> "ECNL", gender |-> "girls"]
              @@ o2 :> [league |-> "ECRL", gender |-> "girls"]

MCNameOf == e1 :> [rl |-> TRUE, words |-> {}, season |-> "2025-26"]

\* No filters; all three, the gender being one that the name of the event does not say;
\* a gender whose organizations are left out of org_ids; and one that there is not.
MCQueries == {[league |-> None, gender |-> None, season |-> None],
              [league |-> "ECRL", gender |-> "girls", season |-> "2025-26"],
              [league |-> None, gender |-> "boys", season |-> None],
              [league |-> None, gender |-> "invalid", season |-> None]}

MCInit == Init /\ began = [f \in Finds |-> 0]

MCNext == Next /\ began' = [f \in Finds |-> IF Pending(f) THEN began[f] ELSE now']

MCSpec == MCInit /\ [][MCNext]_mcvars

Fits(filter, says) == filter \in {None, says}

WantedOrgs(query) == {o \in Orgs : /\ Fits(query.league, OrgKey[o].league)
                                   /\ Fits(query.gender, OrgKey[o].gender)}

\* A name that says both genders is taken for a girls' event.
Says(words) == IF "girls" \in words THEN {"girls"} ELSE words

\* An event is wanted if its name says so, whatever organization lists it.
Wanted(query) == {e \in Events : /\ Fits(query.league, IF NameOf[e].rl THEN "ECRL" ELSE "ECNL")
                                 /\ query.gender \in {None} \union Says(NameOf[e].words)
                                 /\ Fits(query.season, NameOf[e].season)}

(* All or nothing: an answer holds exactly the events that pass the filters*)
(* and that the organizations of the query list, each read at one instant -*)
(* never a part of them because a read failed or was not awaited, whatever *)
(* orphans are on their way, and never older than the cache allows: each   *)
(* list was sent during the call, or less than the TTL and the transit     *)
(* before it began.                                                        *)
AnswersAreComplete ==
  [][\A f \in Finds : Pending(f) /\ find'[f].pc = "answered" =>
       LET query == find[f].query
       IN  \E read \in [WantedOrgs(query) ->
                          {t \in 0 .. now : t + TtlSeconds + MaxTransit > began[f]}] :
             find'[f].events = Wanted(query)
                                 \intersect UNION {lists[read[o]][o] : o \in WantedOrgs(query)}]_mcvars

Symmetry == Permutations(Finds)
=============================================================================
