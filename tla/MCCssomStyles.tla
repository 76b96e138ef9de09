--------------------------- MODULE MCCssomStyles ---------------------------
EXTENDS CssomStyles
CONSTANTS a, b, c
MCKind == (a :> "style") @@ (b :> "link") @@ (c :> "adopted")
MCSheets == ("document" :> <<a, b>>) @@ ("shadow" :> <<>>)
=============================================================================
