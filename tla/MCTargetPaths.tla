--------------------------- MODULE MCTargetPaths ---------------------------
\* A letter, the colon and both separators; a platform of either style.
EXTENDS TargetPaths

Characters == {"C", ":", "/", "\\"}
EntryName == <<"C">>
=============================================================================
