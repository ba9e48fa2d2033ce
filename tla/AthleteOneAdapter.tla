-------------------------- MODULE AthleteOneAdapter -------------------------
(***************************************************************************)
(* AthleteOneAdapter of adapters/outbound/athleteone_adapter.py: the HTTP  *)
(* requests that each port method sends, and what each reply becomes.      *)
(***************************************************************************)

\* The methods, by the requests they send: get_event, get_event_overview, and
\* the nine that send one request and take empty data as an empty result.
Methods == {"get_event", "get_event_overview", "other"}

\* The requests of one attempt; get_event_overview gathers two of them.
Parts(method) == CASE method = "get_event" -> {"event"}
                   [] method = "get_event_overview" -> {"event", "tree"}
                   [] method = "other" -> {"other"}

AllParts == {"event", "tree", "other"}

\* What can come back: data, an empty `data' field, status 404; a transport error,
\* another status, an error envelope or a reply that is no object; and a body that
\* is not JSON or whose data does not have the shape the parsers expect.
Replies == {"data", "empty", "404", "error", "undecodable"}

\* _get with _unwrap, and the emptiness check of get_event.
Outcome_M(part, reply) == CASE reply = "404" -> "not_found"
                            [] reply = "error" -> "http_error"
                            [] OTHER -> "ok"    \* mutant: httpx.HTTPError escapes
Outcome(part, reply) == CASE reply = "404" -> "not_found"
                          [] reply = "empty" /\ part = "event" -> "not_found"
                          [] reply = "error" -> "upstream"
                          [] reply = "undecodable" -> "undecodable"
                          [] OTHER -> "ok"
=============================================================================
