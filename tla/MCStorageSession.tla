-------------------------- MODULE MCStorageSession --------------------------
(* An instance of StorageSession for TLC: a local and a cloud backend, and
   registrations that conflict. *)
EXTENDS StorageSession, TLC

CONSTANTS t1, t2   \* model values

TwoTasks == {t1, t2}
Symmetry == Permutations(TwoTasks)

Names == {"a", "d", "e", "w", "%2A"}

(* "%2A" is a name as well as the spelling of the name "*". *)
Spellings == [n \in Names \cup {".."} |-> IF n = "%2A" THEN "%252A" ELSE n]
Meanings ==
  [s \in {"", "%61", "%2A", "%252A", "d%2Fa"} \cup (Names \ {"%2A"}) \cup {".", ".."} |->
     CASE s = "%61" -> <<"a">> [] s = "%2A" -> <<"*">> [] s = "%252A" -> <<"%2A">>
       [] s = "d%2Fa" -> <<"d", "a">> [] OTHER -> <<s>>]

Upload == {"--upload"}
Retries == {"--retries"}
InDirectory == <<"d">>

SomeArguments ==
  {[maxRetries |-> 1, timeout |-> 1, initial |-> 1, maximum |-> 2, base |-> 2],
   [maxRetries |-> 1, timeout |-> 1, initial |-> 2, maximum |-> 1, base |-> 2]}

Lit(spelling) ==
  [spelling |-> spelling, active |-> FALSE,
   pieces |-> [i \in DOMAIN Meanings[spelling] |-> {Meanings[spelling][i]}]]
Star == [spelling |-> "%2A", active |-> TRUE, pieces |-> <<Names>>]
Deep == [spelling |-> "%2A", active |-> TRUE, pieces |-> <<Recursive>>]

Url(scheme, authority, path, query) ==
  [scheme |-> scheme, authority |-> authority, path |-> path, query |-> query]
S3Url(authority, path) == Url("s3", authority, path, None)
Given(url) == [bare |-> FALSE, url |-> url]
Text(segments) == [absolute |-> FALSE, segments |-> segments]
Bare(segments) == [bare |-> TRUE, text |-> Text(segments)]

Exact == Text(<<Lit("a")>>)
Above == Text(<<Lit(".."), Lit("a")>>)
AboveGlob == Text(<<Lit(".."), Lit("."), Lit("d"), Star>>)

Texts == {Exact, Above, AboveGlob}

Local == [name |-> "local", schemes |-> <<"file">>, access |-> "both", keys |-> <<>>,
          map |-> [x \in Texts |-> LocalUrl(x)],
          patterns |-> [x \in Texts |-> LocalPattern(x)],
          validator |-> "any", retries |-> FALSE]
S3 == [name |-> "s3", schemes |-> <<"s3">>, access |-> "both",
       keys |-> <<"--region">>, map |-> None, patterns |-> None,
       validator |-> "bucket", retries |-> TRUE]
Twin == [S3 EXCEPT !.name = "twin", !.keys = <<"--twin">>]
Reader == [S3 EXCEPT !.access = "input"]
(* Its bare text means an object of another backend. *)
Stray == [name |-> "stray", schemes |-> <<"file">>, access |-> "both",
          keys |-> <<>>, map |-> [x \in Texts |-> S3Url("bk", <<"d", "a">>)],
          patterns |-> [x \in Texts |-> [base |-> S3Url("bk", <<>>),
                                         segments |-> <<Lit("d"), Star>>]],
          validator |-> "any", retries |-> FALSE]

SomeRegistrations ==
  {<<Local, S3>>, <<Local, Reader>>, <<Stray, S3>>, <<S3, Twin>>,
   <<Local, [Stray EXCEPT !.schemes = <<"stray">>]>>,
   <<S3, [Twin EXCEPT !.schemes = <<"gs">>, !.keys = <<"--retries">>]>>}

Prepare(input, reject) == [op |-> "prepare", input |-> input, reject |-> reject]
Expand(pattern) == [op |-> "expand", pattern |-> pattern]
Glob(base, segments) == [bare |-> FALSE, base |-> base, segments |-> segments]

SomeRequests ==
  {Prepare(Given(S3Url("bk", <<"d", "a">>)), TRUE),
   Prepare(Given(S3Url("bk", <<"d%2Fa">>)), FALSE),
   Prepare(Given(S3Url("bk", <<"d", "%61", "">>)), FALSE),
   Prepare(Given(S3Url("other", <<"d", "a">>)), FALSE),
   Prepare(Bare(<<Lit("a")>>), TRUE),
   Prepare(Given(Url("file", None, <<"d", "a">>, "q")), FALSE),
   [op |-> "lookup", input |-> Given(S3Url("bk", <<"d", "a">>))],
   Prepare(Bare(<<Lit(".."), Lit("a")>>), FALSE),
   Expand(Bare(<<Lit("a")>>)),
   Expand(Bare(<<Lit(".."), Lit("."), Lit("d"), Star>>)),
   Expand(Glob(Url("file", None, <<>>, "q"), <<Lit("d"), Star>>)),
   Expand(Glob(S3Url("bk", <<>>), <<Deep, Lit("a")>>)),
   Expand(Glob(Url("s3", "bk", <<>>, "q"), <<Lit("d"), Star>>))}

StoreUrls == {[scheme |-> "s3", authority |-> "bk"],
              [scheme |-> "s3", authority |-> "other"],
              [scheme |-> "file", authority |-> None]}

SomePaths == {<<"a">>, <<"d", "a">>, <<"d", "%2A">>, <<"d", "e", "a">>}
AtFirst == {{<<"d", "a">>, <<"d", "%2A">>, <<"d", "e", "a">>}}

=============================================================================
