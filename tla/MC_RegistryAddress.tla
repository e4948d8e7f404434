------------------------- MODULE MC_RegistryAddress -------------------------
(* Tags and prefixes long enough that the prefixed tag is both shorter     *)
(* than, equal to and longer than TagMax.  MCTagChars holds the characters *)
(* of the tags the callers pass (db.Name and buildId with suffixes, which  *)
(* never contain a colon).                                                 *)
EXTENDS RegistryAddress

MCTagMax == 3
MCPrefixes == BoundedSeq({"p"}, 2)
MCRegistries ==
    [host : {<<>>, <<"registry.local">>},
     port : {<<>>, <<"443">>, <<"5000">>},
     owner : {<<>>, <<"tenant">>},
     repository : {<<>>, <<"builds">>},
     prependTag : MCPrefixes]
MCTagChars == {"a", "-"}
MCTagInputs == BoundedSeq(MCTagChars, 3)
=============================================================================
