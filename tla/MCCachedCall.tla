---------------------------- MODULE MCCachedCall ----------------------------
(***************************************************************************)
(* Worlds for CachedCall: up to four calls on one argument tuple.          *)
(*                                                                         *)
(*  - a rolling upgrade: two threads of one process run the new code; on   *)
(*    the event loop of a peer process that may die, a sealed task runs    *)
(*    the new code and another the old, which writes the fallback key; the *)
(*    entries found may be absent, readable or drifted, and the current    *)
(*    one may be lost (MCCachedCall.cfg);                                  *)
(*  - a drifted fallback entry and nothing else (MCDriftedFallback.cfg).   *)
(***************************************************************************)
EXTENDS CachedCall, TLC

CONSTANTS a, b, c, z,          \* the calls
          p, q,                \* scopes and processes
          new, old,            \* the current key and the fallback key
          u, drift             \* a stored value, and one that has drifted

\* c and z in process q, the others in process p.
MCScopeOf == [x \in Calls |-> IF x \in {c, z} THEN q ELSE p]
MCProcessOf == [s \in Scopes |-> s]

\* z runs the old code.
MCKeyOf == [x \in Calls |-> IF x = z THEN old ELSE new]
MCAcceptOf == [x \in Calls |-> IF x = z THEN <<>> ELSE <<old>>]

Stored(current, fallback) == new :> current @@ old :> fallback
MCInitStores == {Stored(Missing, Missing), Stored(Missing, u),
                 Stored(Missing, drift), Stored(drift, u)}
DriftedInitStores == {Stored(Missing, drift)}

=============================================================================
