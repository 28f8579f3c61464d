------------------------------- MODULE MCReads -------------------------------
(* Two reads and an export through the facade; in Home Assistant two fetches, *)
(* or a fetch with a prime or an export.  Reads.tla is an instance, with the *)
(* names that CatalogSnapshot.tla has changed: CatalogSnapshotProofs is about *)
(* both.                                                                     *)
CONSTANTS Readers, Exporters, Fetchers, Primers, Companies, Flaky, NoTable

VARIABLES company, have, flagged, pending, tburst, answered, tqueue, up, lost, posted, readyFor,
          primed, at, table, waiters, woken, got, spoiled, wiped, missed, dropped

Rd == INSTANCE Reads WITH burst <- tburst, queue <- tqueue, None <- NoTable

ASSUME TasksAreApart == Rd!Apart

CONSTANTS r1, r2, e1, f1, f2, p1

Unsteady == {{r1, r2}, {r1, e1}, {f1}, {p1}}
Small == Unsteady \cup {{f1, f2}, {f1, p1}, {f1, e1}}

MCSpec == Rd!FairSpec

\* A read of the facade and an export return what the hub holds, unless the
\* answer broke off or the cache was cleared meanwhile (Reads!ReadIsWhole).
ReadIsWhole == Rd!ReadIsWhole

\* A read of the facade times out only while its table is not there or has just
\* come, or when it came before the read had registered (Reads!TimeoutIsHonest).
TimeoutIsHonest == Rd!TimeoutIsHonest

\* While the hub stays connected every fetch of the coordinator ends, unless
\* another one threw its future away (Reads!FetchReturns).
FetchReturns == Rd!FetchReturns
=============================================================================
