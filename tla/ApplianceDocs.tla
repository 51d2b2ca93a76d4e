--------------------------- MODULE ApplianceDocs ----------------------------
(***************************************************************************)
(* The configuration documents, as a part of the appliance: ConfigDocs     *)
(* over variables of its own.                                              *)
(***************************************************************************)
EXTENDS Integers

CONSTANTS DocsChanges, DocsFaults, DocsCuts

ASSUME DocsAssumption == {DocsChanges, DocsFaults, DocsCuts} \subseteq Nat

VARIABLES d_docs, d_temps, d_op, d_draft, d_camera, d_changes, d_faults, d_acked, d_excused
docsVars == <<d_docs, d_temps, d_op, d_draft, d_camera, d_changes, d_faults, d_acked,
                d_excused>>

Docs == INSTANCE ConfigDocs WITH
    docs <- d_docs, temps <- d_temps, op <- d_op, draft <- d_draft, camera <- d_camera,
    changes <- d_changes, faults <- d_faults, acked <- d_acked, excused <- d_excused,
    MaxChanges <- DocsChanges, MaxFaults <- DocsFaults, MaxCuts <- DocsCuts

\* Between requests the documents on the card are those of the requests that were
\* acknowledged, unless a rename pair was cut or its rollback failed.
StoredIsAcked == Docs!StoredIsAcked
=============================================================================
