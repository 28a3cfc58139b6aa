------------------------------ MODULE RiotCalls -----------------------------
(***************************************************************************)
(* Calls of Riot's HTTP interface (src/src/riot/riot-api.client.ts): how   *)
(* often one is repeated, and what its last reply means to the caller.     *)
(***************************************************************************)
EXTENDS Naturals

\* What is looked up, and the replies to one attempt: a body, a status of a class
\* the client tells apart, or no response at all.
Lookup == {"account", "summoner", "ranked", "matchIds", "matchDetail"}
Reply  == {"ok", "limited", "notFound", "unauthorized", "unavailable", "rejected", "none"}

\* request repeats itself after 429 and 5xx, up to the fourth attempt.
Repeated(reply, attempt) == reply \in {"limited", "unavailable"} /\ attempt <= 3

\* The attempts there can be, and what a call can end with at one of them.
Attempts == {n \in 1..5 : \A k \in 1..(n - 1) : \E reply \in Reply : Repeated(reply, k)}
Outcome  == {o \in [lookup : Lookup, reply : Reply] :
               \E n \in Attempts : ~ Repeated(o.reply, n)}

Fails(o) == o.reply # "ok"

\* RiotApiError: the last reply decides whether the job may be run again.
Retryable(o) == o.reply \in {"limited", "unavailable", "none"}
=============================================================================
