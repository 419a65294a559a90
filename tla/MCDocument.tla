----------------------------- MODULE MCDocument -----------------------------
EXTENDS Document

CONSTANTS p1, p2
ProxySymmetry == Permutations({p1, p2})

MCKeys == {"a", "b", ""}
MCIndices == 0 .. 1
MCCut == [s \in {"a", "b", "", "0A", "0a", "x", "x0y"} |-> IF s = "x0y" THEN "x" ELSE s]
MCDecode == ("0A" :> "byte" @@ "0a" :> "byte" @@ "" :> "none")
MCEncode == ("byte" :> "0a" @@ "none" :> "")
MCUnwritable == {<<"real", "nan">>}
MCScalars == {<<"Int64", 9>>, <<"String", "0A">>, <<"String", "x0y">>, <<"Float64", "nan">>}
Obj(ms) == <<"object", ms>>
Arr(es) == <<"array", es>>
Str(s) == <<"string", s>>
MCTexts == {
  <<"int", 3>>,
  Arr(<<<<"int", 9>>>>),
  Obj(<<>>),
  Obj(<<<<"a", Str("0A")>>, <<"b", Str("x0y")>>, <<"a", Obj(<<<<"b", <<"int", 9>>>>>>)>>>>),
  Obj(<<<<"a", Arr(<<<<"null", 0>>>>)>>, <<"b", <<"null", 0>>>>>>),
  Obj(<<<<"a", Arr(<<<<"null", 0>>, <<"bool", TRUE>>, Obj(<<>>)>>)>>>>),
  Obj(<<<<"b", Obj(<<<<"a", Obj(<<<<"", Str("")>>>>)>>>>)>>>>) }
=============================================================================
