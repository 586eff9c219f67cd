----------------------------- MODULE MCFeatures -----------------------------
(* Features with servers of different ages and kinds, and an item that is a text *)
(* file, a directory, an empty one, or not there.                              *)
EXTENDS Features, TLC

Plain == [kind |-> "other", does |-> {"NLST"}, sizeA |-> FALSE, dirs |-> FALSE,
          facts |-> FALSE, param |-> "yes", entries |-> TRUE, compliant |-> TRUE]

SomeServers ==
  {Plain,
   [Plain EXCEPT !.does = {"STAT", "NLST"}, !.param = "ignored"],
   [Plain EXCEPT !.does = {"STAT", "SIZE", "NLST"}, !.entries = FALSE],
   [Plain EXCEPT !.does = {"SIZE", "MDTM", "UTIME", "STAT", "NLST"}, !.sizeA = TRUE],
   [Plain EXCEPT !.does = {"FEAT", "SIZE", "MDTM", "MDTM_set", "STAT", "NLST"}, !.sizeA = TRUE],
   [Plain EXCEPT !.does = {"FEAT", "SIZE", "MDTM", "MLST", "MFF", "MFMT", "UTIME", "NLST"}, !.dirs = TRUE],
   [Plain EXCEPT !.does = {"FEAT", "MLST", "MFF"}, !.facts = TRUE],
   [Plain EXCEPT !.kind = "NetWare"],
   [Plain EXCEPT !.kind = "Microsoft", !.does = {"FEAT", "SIZE", "MDTM", "NLST"}],
   [Plain EXCEPT !.kind = "Dgux", !.does = {"FEAT", "SIZE", "MDTM", "NLST"}],
   [Plain EXCEPT !.kind = "Roxen", !.does = {"FEAT", "MLST", "SIZE", "NLST"}],
   [Plain EXCEPT !.kind = "WuFTPd", !.does = {"SIZE", "MDTM", "MDTM_set", "STAT", "NLST"}],
   [Plain EXCEPT !.kind = "NcFTPd", !.does = {"FEAT", "SIZE", "MDTM", "MLST", "MFMT", "UTIME", "NLST"},
                 !.facts = TRUE],
   [Plain EXCEPT !.kind = "NcFTPd", !.does = {"FEAT", "SIZE", "MDTM", "MLST", "NLST"}, !.compliant = FALSE]}

SomeOverrides == {<<>>, ("MLST" :> "no") @@ ("STAT" :> "yes"), ("MFMT" :> "no") @@ ("SIZE" :> "no"),
                  "MDTM" :> "yes", "FEAT" :> "no"}

SomeItems ==
  {[kind |-> "none", bytes |-> 0, mtime |-> 0], [kind |-> "file", bytes |-> 3, mtime |-> 1],
   [kind |-> "file", bytes |-> 5, mtime |-> 2], [kind |-> "dir", bytes |-> 0, mtime |-> 1],
   [kind |-> "dir", bytes |-> 4, mtime |-> 2]}
==============================================================================
