------------------------------- MODULE SlugGen -------------------------------
(***************************************************************************)
(* Slug arithmetic (internal/scanner/sluggen.go).  A slug names a symbol,  *)
(* an interval and the start of a trading window; for one symbol and one   *)
(* interval it is that start time.  dur is the interval's length.          *)
(* Operators named Bug... are mistakes the mutation runs put in place of   *)
(* the operator they precede.                                              *)
(***************************************************************************)
EXTENDS Integers

(* The start of the window that contains now. *)
BugCurrentSlug(now, dur) == ((now + dur - 1) \div dur) * dur
CurrentSlug(now, dur) == (now \div dur) * dur

(* The n windows after the current one. *)
GenerateInitialSlugs(now, dur, n) ==
    [i \in 1..n |-> CurrentSlug(now, dur) + i * dur]

(* The anchor is older than n windows. *)
BugIsStale(anchor, now, dur, n) == anchor < now - (n + 1) * dur
IsStale(anchor, now, dur, n) == anchor < now - n * dur

(* The n windows after the anchor; an error when it is stale. *)
GenerateNextSlugs(anchor, dur, n) == [i \in 1..n |-> anchor + i * dur]
=============================================================================
