--------------------------- MODULE MCDesiredState ---------------------------
(***************************************************************************)
(* A cache with two backends, and values for each field that meet the      *)
(* rules and that break them.                                              *)
(***************************************************************************)
EXTENDS DesiredState

CONSTANTS x, y   \* services

NoShard == [warmup |-> -1, rampup |-> 0, by |-> "", healthy |-> ""]

MCDirector(type, header) == [type |-> type, shard |-> NoShard, header |-> header]

MCBackend(name, service, type) ==
    [name |-> name, service |-> service, port |-> 0, director |-> MCDirector(type, ""),
     retries |-> -1, probe |-> [url |-> FALSE, window |-> 0, threshold |-> 0]]

MCBaseSpec ==
    [replicas |-> 1, flavor |-> "", version |-> 0, image |-> FALSE, params |-> {1, 2},
     storage |-> <<>>, volumes |-> <<>>, claims |-> <<>>, mounts |-> <<>>, env |-> <<>>,
     cpu |-> 0, ephemeral |-> 0, affinity |-> "",
     antiAffinity |-> [set |-> FALSE, spec |-> [type |-> "", key |-> "", weight |-> 0]],
     proxy |-> [enabled |-> FALSE, port |-> 0],
     exporter |-> [enabled |-> FALSE, port |-> 0, image |-> FALSE],
     tracing |-> [enabled |-> FALSE, endpoint |-> ""],
     sources |-> {}, purge |-> FALSE, peerRouting |-> "",
     debounce |-> 0, backoffBase |-> 0, backoffMax |-> 0,
     director |-> MCDirector("", ""),
     backends |-> <<MCBackend(<<"one">>, x, "nil"), MCBackend(<<"two">>, y, "round_robin")>>,
     cluster |-> [enabled |-> FALSE, retries |-> -1]]

MCBaseSpecs == {MCBaseSpec, [MCBaseSpec EXCEPT !.claims = <<<<"pvc">>>>]}

\* Stored before the rules: a shard key and a header of former days.
MCLegacySpecs ==
    {[MCBaseSpec EXCEPT !.director = [@ EXCEPT !.type = "shard", !.shard.by = "HASH"]],
     [MCBaseSpec EXCEPT !.backends = <<[@[1] EXCEPT !.director = MCDirector("hash", "other")]>>]}

MCFile(name, size) == [name |-> name, type |-> "file", size |-> size, path |-> <<>>]

MCEditValues ==
    [replicas |-> {1, 2},
     flavor |-> {"varnish", "vinyl"},
     version |-> {1, 2},
     image |-> {TRUE},
     params |-> {{1, 3}, {9}},
     storage |-> {<<MCFile(<<"a", "_", "b">>, 100), MCFile(<<"a", "-", "b">>, 2000)>>,
                  <<MCFile(<<"a">>, 100), MCFile(<<"a">>, 200)>>,
                  <<MCFile(<<"a">>, 0)>>,
                  <<[name |-> <<"a">>, type |-> "file", size |-> 1, path |-> <<"tmp", "a">>]>>,
                  <<[name |-> <<"a">>, type |-> "malloc", size |-> 1, path |-> <<>>]>>},
     volumes |-> {<<<<"data">>>>, <<<<"data">>, <<"pvc">>>>, <<<<"varnish-tmp">>>>,
                  <<FileStorageVolumeName(<<"a", "-", "b">>)>>},
     claims |-> {<<<<"pvc">>>>},
     mounts |-> {<<[name |-> <<"data">>, path |-> <<"srv">>]>>,
                 <<[name |-> <<"pvc">>, path |-> <<"etc", "varnish">>]>>,
                 <<[name |-> <<"varnish-tmp">>, path |-> <<"etc", "varnish">>]>>,
                 <<[name |-> <<"varnish-tmp">>, path |-> <<"var", "lib", "">>]>>,
                 <<[name |-> <<"pvc">>, path |-> <<"var", "lib", "varnish-cache">>]>>},
     env |-> {<<"X", "MALLOC_CONF">>, <<"X", "X">>},
     cpu |-> {500},
     ephemeral |-> {4000},
     affinity |-> {"node", "anti"},
     antiAffinity |-> {[set |-> TRUE, spec |-> [type |-> t, key |-> "", weight |-> 0]] :
                          t \in {"", "required", "none"}},
     proxy |-> [enabled : {TRUE}, port : {0, 8082, 9464}],
     exporter |-> [enabled : {TRUE}, port : {0, 8081, 8082}, image : {FALSE}],
     tracing |-> [enabled : {TRUE}, endpoint : {"", "host:port"}],
     sources |-> {{"cidr"}, {"host"}},
     director |-> {MCDirector("hash", "token"), MCDirector("", "other")},
     backends |-> {<<MCBackend(<<"one">>, x, type), MCBackend(<<"two">>, y, "nil")>> :
                      type \in {"hash", "fallback", ""}}
         \cup {<<[MCBackend(<<"one">>, x, "nil") EXCEPT !.retries = 0,
                     !.probe = [url |-> TRUE, window |-> 2, threshold |-> t]]>> : t \in 0..1},
     cluster |-> [enabled : {TRUE}, retries : {-1, 0}]]

MCCatalog(default, versions, complete) ==
    [default |-> default, versions |-> versions, complete |-> complete]

\* Two that load, one whose default left, one without an image, an empty one.
MCRawCatalogs ==
    {[varnish |-> MCCatalog(1, {1, 2}, TRUE), vinyl |-> MCCatalog(1, {1}, TRUE)],
     [varnish |-> MCCatalog(2, {2}, TRUE)],
     [varnish |-> MCCatalog(1, {2}, TRUE)],
     [varnish |-> MCCatalog(2, {2}, FALSE)],
     [f \in {} |-> MCCatalog(1, {1}, TRUE)]}

MCEndpoint(ip, state, terminating) ==
    [ip |-> ip, port |-> 80, ready |-> state, terminating |-> terminating]

MCListings ==
    [s \in {x, y} |->
        IF s = x THEN {{}, {MCEndpoint(1, "yes", FALSE), MCEndpoint(2, "nil", FALSE)}}
        ELSE {{}, {MCEndpoint(3, "no", FALSE)},
              {MCEndpoint(3, "yes", FALSE), [MCEndpoint(3, "yes", FALSE) EXCEPT !.port = 81]},
              {MCEndpoint(3, "yes", FALSE), MCEndpoint(4, "yes", TRUE)}}]

MCCacheName == <<"cache">>

MCOperatorAntiAffinity == [type |-> "", key |-> "zone", weight |-> 50]

=============================================================================
