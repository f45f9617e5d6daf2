------------------------------ MODULE MCServer ------------------------------
(* Three clients and two descriptors; files and folders, good and bad.     *)
EXTENDS Server

MCPortTexts == {"6970"}

Field(t) == [names |-> KEYS \cap {t}, field |-> TRUE, text |-> t]
Junk == [names |-> {}, field |-> FALSE, text |-> ""]

Brace == <<Junk>>
Line(k, v) == <<Field(k), Field(v)>>

\* The file that comes with the server, in its order, with this connection
\* type, port and directory.
Shipped(type, port, dir) ==
    <<Brace, Line("connection type", type), Line("password", "louvre"),
      Line("port", port), Line("path/to/certificates", dir),
      Line("client root CA subdir", "roots"), Brace>>

Good == Shipped("ssl", "6970", "certs")

With(i, line) == [Good EXCEPT ![i] = line]

MCFiles ==
    {Good, Shipped("tls", "6970", "certs"), Shipped("TCP", "6970", "certs"),
     Shipped("udp", "6970", "certs"), Shipped("ssl", "http", "certs"),
     Shipped("ssl", "6970", "elsewhere"),
     <<>>,                                                  \* no file at all
     SubSeq(Good, 1, 5),                                    \* a key is missing
     With(3, <<Field("password"), Junk, Junk>>),            \* "a:b"
     With(4, <<Field("port"), Junk>>),                      \* 6970
     With(3, Line("password", "port")),                     \* the name of a key
     With(3, Line("password", "")),
     With(1, Line("connection type", "tcp")),               \* a key twice
     <<Brace, Line("port", "6970")>> \o SubSeq(Good, 2, 3) \o SubSeq(Good, 5, 7)}

Folder(kind, certs, keys, roots) ==
    [path |-> "certs", kind |-> kind, subdir |-> "roots",
     certs |-> certs, keys |-> keys, root_CAs |-> roots]

MCFolders ==
    {Folder("directory", {"server"}, {"server"}, {"client"}),
     Folder("directory", {"server"}, {"server"}, {}),
     Folder("directory", {"server"}, {"server"}, {"client", Broken}),
     Folder("directory", {"server", "other"}, {"server"}, {"client"}),
     Folder("directory", {Broken}, {Broken}, {"client"}),
     Folder("directory", {"server"}, {}, {"client"}),
     [Folder("directory", {"server"}, {"server"}, {"client"}) EXCEPT !.subdir = "clients"],
     Folder("file", {}, {}, {})}
=============================================================================
