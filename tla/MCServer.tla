------------------------------ MODULE MCServer ------------------------------
(***************************************************************************)
(* Server with kinds of requests that differ in one respect from a plain   *)
(* one, so that every gate, every way to fetch and every fallback is met.  *)
(***************************************************************************)
EXTENDS Server, TLC

CONSTANTS k1, k2, r1, r2, r3

MCKey == {k1, k2}
MCRequest2 == {r1, r2}
MCRequest3 == {r1, r2, r3}
Symmetry == Permutations(MCRequest3)

Plain == [route |-> "image", parses |-> TRUE, in_range |-> TRUE,
          within_max |-> TRUE, key |-> k1, remote |-> FALSE, overlays |-> 0,
          thumbhash |-> FALSE, redirect |-> FALSE, conditional |-> FALSE]

\* A plain request, one for another key, one with two overlays: the kinds that
\* contend for slots, permits and the cache.
ContendingKind == {Plain, [Plain EXCEPT !.key = k2],
                   [Plain EXCEPT !.overlays = 2]}

\* One kind for every branch of the handler.
EveryKind ==
  ContendingKind \cup
  {[Plain EXCEPT !.route = "service"],
   [Plain EXCEPT !.parses = FALSE],
   [Plain EXCEPT !.in_range = FALSE],
   [Plain EXCEPT !.within_max = FALSE],
   [Plain EXCEPT !.remote = TRUE],
   [Plain EXCEPT !.remote = TRUE, !.overlays = 1],
   [Plain EXCEPT !.remote = TRUE, !.redirect = TRUE],
   [Plain EXCEPT !.thumbhash = TRUE],
   [Plain EXCEPT !.thumbhash = TRUE, !.overlays = 1],
   [Plain EXCEPT !.redirect = TRUE],
   [Plain EXCEPT !.conditional = TRUE]}

PlainKind == {Plain}

\* Everything allowed, with the default fallback; the opposite; and R2 with one
\* of the gates open.
Open == [origin_type |-> "http", allow_remote_sources |-> TRUE,
         allow_draw_overlays |-> TRUE, on_failure |-> "passthrough"]
Closed == [origin_type |-> "r2", allow_remote_sources |-> FALSE,
           allow_draw_overlays |-> FALSE, on_failure |-> "error"]
OpenConfig == {Open}
R2Config == {[Closed EXCEPT !.on_failure = "passthrough"]}
EveryConfig ==
  {Open, Closed, [Open EXCEPT !.origin_type = "r2", !.allow_draw_overlays = FALSE],
   [Closed EXCEPT !.origin_type = "http", !.allow_draw_overlays = TRUE]}
=============================================================================
