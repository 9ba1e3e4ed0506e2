---------------------------- MODULE MCRedirection ----------------------------
(***************************************************************************)
(* The configurations that differ in what the redirection does: a stream   *)
(* of its own or a shared file, renamed or copied, each way to open, and   *)
(* files that nothing keeps from being archived.                           *)
(***************************************************************************)
EXTENDS Redirection

OfItsOwn(stamp, copy, how) ==
    [enabled |-> {"stdout"}, relayed |-> TRUE, shared |-> FALSE, timestamp |-> stamp,
     online |-> TRUE, copyAndTruncate |-> copy, archivable |-> FALSE, disposition |-> how]

Archivable(c) == [c EXCEPT !.archivable = TRUE]

Shared(stamp, copy, how) ==
    [OfItsOwn(stamp, copy, how) EXCEPT !.enabled = Stream, !.shared = TRUE]

Direct(sharing) ==
    [OfItsOwn(FALSE, FALSE, "openAlways") EXCEPT !.enabled = Stream, !.shared = sharing,
                                            !.relayed = FALSE, !.online = FALSE]

MCConfigs == {OfItsOwn(TRUE, FALSE, "openAlways"), OfItsOwn(FALSE, FALSE, "createAlways"),
              OfItsOwn(TRUE, TRUE, "openExisting"), OfItsOwn(FALSE, FALSE, "openExisting"),
              OfItsOwn(FALSE, TRUE, "createNew"), OfItsOwn(FALSE, TRUE, "truncateExisting"),
              Shared(TRUE, FALSE, "openAlways"), Direct(FALSE), Direct(TRUE),
              Archivable(OfItsOwn(TRUE, FALSE, "openAlways")),
              Archivable(OfItsOwn(TRUE, TRUE, "openExisting"))}

MCPieces == [s \in Stream |-> IF s = "stdout" THEN 3 ELSE 1]

MCDefaults == {OfItsOwn(FALSE, FALSE, "openAlways"), Shared(FALSE, FALSE, "openAlways")}
=============================================================================
