--------------------------- MODULE LicensedWrites ---------------------------
(***************************************************************************)
(* What the receipt table promises (invariants 8 and 9 of design/schema.md)*)
(* with no table: a row has a version, each write raises it by exactly one,*)
(* and a client writes a row only if it has been shown that row as it      *)
(* stands, i.e. since the last write by anybody.                           *)
(***************************************************************************)
EXTENDS Naturals

CONSTANTS Uuids, Clients

VARIABLES
    version,   \* the version of each existing row
    shown      \* <<c, u>>: c has been shown u as it now stands

lwVars == <<version, shown>>

LWInit ==
    /\ DOMAIN version \subseteq Uuids
    /\ version \in [DOMAIN version -> Nat \ {0}]
    /\ shown = {}

Show(c, U) ==
    /\ shown' = shown \cup {c} \X U
    /\ UNCHANGED version

\* c writes the rows W and inserts the rows I.
WriteRows(c, W, I) ==
    /\ {c} \X W \subseteq shown
    /\ version' = [u \in DOMAIN version \cup I |->
                      IF u \in I THEN 1
                      ELSE IF u \in W THEN version[u] + 1 ELSE version[u]]
    /\ shown' = {p \in shown : p[2] \notin W} \cup {c} \X (W \cup I)

LWNext ==
    \E c \in Clients :
        \/ \E U \in SUBSET DOMAIN version : Show(c, U)
        \/ \E W \in SUBSET DOMAIN version, I \in SUBSET (Uuids \ DOMAIN version) :
               WriteRows(c, W, I)

LWSpec == LWInit /\ [][LWNext]_lwVars
=============================================================================
