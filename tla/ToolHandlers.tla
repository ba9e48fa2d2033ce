---------------------------- MODULE ToolHandlers ----------------------------
(***************************************************************************)
(* The tools that create_mcp_server of adapters/inbound/mcp_adapter.py     *)
(* registers, one module of adapters/inbound/tools after the other.  Each  *)
(* handler writes down three names: its own, under which clients call it,  *)
(* the one that it passes on for the authorizer to ask about, and that of  *)
(* the method of ECNLService whose coroutine it creates.                   *)
(***************************************************************************)

Handler(tool, asks, runs) == [tool |-> tool, asks |-> asks, runs |-> runs]

EventTools == {Handler("find_events", "find_events", "find_events"),
               Handler("get_event_overview", "get_event_overview", "get_event_overview")}

StandingsTools == {Handler("get_standings", "get_standings", "get_standings")}

ScheduleTools == {Handler("get_schedule", "get_schedule", "get_schedule"),
                  Handler("get_team_schedule", "get_team_schedule", "get_team_schedule")}

TeamTools == {Handler("get_teams", "get_teams", "get_teams"),
              Handler("get_clubs", "get_clubs", "get_clubs")}

MatchTools == {Handler("get_match", "get_match", "get_match"),
               Handler("get_brackets", "get_brackets", "get_brackets")}

AnalyticsTools == {Handler("get_results", "get_results", "get_results"),
                   Handler("get_rpi", "get_rpi", "get_rpi"),
                   Handler("get_team_rpi", "get_team_rpi", "get_team_rpi")}

Handlers == EventTools \union StandingsTools \union ScheduleTools
              \union TeamTools \union MatchTools \union AnalyticsTools
=============================================================================
