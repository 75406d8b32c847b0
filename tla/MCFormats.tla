----------------------------- MODULE MCFormats -----------------------------
EXTENDS Formats

CONSTANTS python, list, gf, im, note, nul

(* List was once PythonList, and Gf was GfIm and GfIm of an older kind. *)
MCTags == {<<list>>, <<python, list>>, <<gf>>, <<gf, im>>}

MCClassOf ==
    [f \in MCTags |-> IF f \in {<<list>>, <<python, list>>} THEN "List" ELSE "Gf"]

MCBuiltin == {<<list>>}

Pattern(regex, clsname, child) ==
    [regex |-> regex, clsname |-> clsname, hints |-> [child |-> child]]

MCBuiltinPatterns == <<Pattern(<<python, list>>, <<list>>, <<>>)>>

MCPatterns ==
    {Pattern(<<gf>>, <<gf>>, <<>>), Pattern(<<gf, im>>, <<gf>>, <<list>>)}

MCNotes == {<<note>>}
=============================================================================
