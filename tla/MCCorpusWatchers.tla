--------------------------- MODULE MCCorpusWatchers ---------------------------
(* Two versions, one of them with two addresses; two registrations of one  *)
(* version; a configuration in which one version is never polled.          *)
EXTENDS CorpusWatchers

Handbook == [version |-> "handbook", uri |-> "a"]
Moved_ == [version |-> "handbook", uri |-> "b"]
Docs == [version |-> "docs", uri |-> "a"]

MCSources == {Docs}
MCConfigs ==
  {<<[id |-> 1, source |-> Handbook], [id |-> 3, source |-> Docs]>>,
   <<[id |-> 2, source |-> Moved_]>>}
=============================================================================
