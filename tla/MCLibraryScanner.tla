-------------------------- MODULE MCLibraryScanner --------------------------
\* Small libraries for TLC.
EXTENDS LibraryScanner, TLC

CONSTANTS s1, s2

At(dir, base) == [dir |-> dir, base |-> base]

Names == {"lib", "new", "ann", "Ann", "bob", "dune", "emma",
           "Ann - emma", ".trash", "unknown"}
LowerCase == [n \in Names |-> IF n = "Ann" THEN "ann" ELSE n]
Folders == [n \in Names |-> n]
CaseApart == {p \in Names \X Names : p[1] # p[2] /\ LowerCase[p[1]] = LowerCase[p[2]]}
NoDashed == [n \in {} |-> NoInfo]
OneDashed == [n \in {"Ann - emma"} |-> [author |-> "Ann", title |-> "emma"]]

Lib     == <<"lib">>
OneRoot == <<Lib>>

AnnDune == At(<<"lib", "ann">>, "dune")
AnnEmma == At(<<"lib", "ann">>, "emma")
RootEmma == At(<<"lib">>, "Ann - emma")
Trashed == At(<<"lib", ".trash">>, "dune")

\* One author by folder and by file name, and a hidden folder; the second
\* content names its author.
AnnTwice    == {AnnDune, RootEmma, Trashed}
TwoContents == {"c1", "c2"}
AllOnDisk   == [p \in Place |-> "c1"]

\* One folder of one author, with a second file to come.
OneFolder   == {AnnDune, AnnEmma}
OneContent  == {"c1"}
OneOnDisk   == [p \in Place |-> IF p = AnnDune THEN "c1" ELSE "absent"]

Sizes == [c \in Content \cup {Cut} |-> IF c = "c1" THEN 1 ELSE IF c = "c2" THEN 2 ELSE 0]
Metas == [c \in Content \cup {Cut} |->
            IF c = "c2" THEN [author |-> "ann", title |-> ""] ELSE NoInfo]

Symmetry == Permutations(Scan)
=============================================================================
