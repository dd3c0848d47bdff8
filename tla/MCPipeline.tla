----------------------------- MODULE MCPipeline -----------------------------
(***************************************************************************)
(* Pipeline on small jobs.  Urls are their positions in UrlList.           *)
(***************************************************************************)
EXTENDS Pipeline

CONSTANTS h1, h2

OneHash == {h1}
TwoHashes == {h1, h2}
TwoUrls == <<"a", "b">>
OneUrl == <<"a">>
OneThenOne == <<1, 1>>
TwoThenOne == <<2, 1>>
JustTwo == <<2>>
=============================================================================
