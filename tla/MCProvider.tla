----------------------------- MODULE MCProvider -----------------------------
(***************************************************************************)
(* The values of the constants of module Provider.                         *)
(***************************************************************************)
EXTENDS Provider

\* Three requests to a site without protection, to one that asks for credentials in each way the
\* code knows, with an application that has them, that has wrong ones or none; and ways the code
\* does not know.
SomePaths == <<"/a", "/b", "/c">>
SomeSettings ==
    {Setting(FALSE, "Digest", Null, "uri"),
     Setting(TRUE, "Digest", Null, "uri"), Setting(TRUE, "Digest", "auth", "ha1"),
     Setting(TRUE, "Digest", "auth", "wrong"), Setting(TRUE, "Digest", "auth", "nothing"),
     Setting(TRUE, "Digest", "auth-int", "passwd"), Setting(TRUE, "Basic", Null, "uri")}
=============================================================================
