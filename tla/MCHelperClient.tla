--------------------------- MODULE MCHelperClient ---------------------------
EXTENDS HelperClient

Files(new, old) == [d \in Dirs |-> IF d = "new" THEN new ELSE old]

\* The file is protected, and is in the new or in the old directory.
MCLayouts == {Files("denied", "missing"), Files("missing", "denied")}

=============================================================================
