------------------------------ MODULE MCRemote ------------------------------
EXTENDS Remote, TLC

\* The slug of a concept, an id that begins with a slash, a text with a space,
\* and nothing.
MCPlussed == "" :> "" @@ "taproot" :> "taproot" @@ "/taproot" :> "/taproot"
               @@ "silent payments" :> "plus"
MCUnslashed == "" :> "" @@ "taproot" :> "taproot" @@ "/taproot" :> "taproot" 
                 @@ "silent payments" :> "silent payments" @@ "plus" :> "plus"

\* A name like any other, one that is read as another, one that is a fragment
\* but for its first part, and two with a parameter of their own.
MCRepoRead == "ldk" :> {"ldk"} @@ "lib+" :> {"lib"} @@ "c#" :> {"c"}
                @@ "a&b" :> {"a"} @@ "a&limit=1" :> {"a"}
MCAdds == "a&b" :> None @@ "a&limit=1" :> 1
MCRepoLists ==
  {<<"ldk">>, <<"lib+", "ldk">>, <<"c#", "ldk">>, <<"ldk", "a&b", "c#">>, <<"a&limit=1">>}
=============================================================================
