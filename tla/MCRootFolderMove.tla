-------------------------- MODULE MCRootFolderMove --------------------------
\* Small libraries whose root folder is moved.
EXTENDS MCLibraryScanner, RootFolderMove

CONSTANT m1

NoSwap  == [x \in {} |-> ""]
New     == <<"new">>
Targets == {Lib, New}

BobEmma == At(<<"lib", "bob">>, "emma")
Loose   == At(<<"lib">>, "dune")

\* Every place there can be, in the old root and in the new one.
WithNew(S) == S \cup {[p EXCEPT !.dir[1] = "new"] : p \in S}

TwoAuthors   == WithNew({AnnDune, BobEmma})
TwoBooks     == WithNew({AnnDune, AnnEmma})
AuthorAndOne == WithNew({AnnDune, Loose})

\* Each file of the old root has a content of its own.
InOldRoot == [p \in Place |->
                IF p.dir[1] # "lib" THEN "absent" ELSE IF p = AnnDune THEN "c1" ELSE "c2"]
NoMetas == [c \in Content \cup {Cut} |-> NoInfo]
=============================================================================
