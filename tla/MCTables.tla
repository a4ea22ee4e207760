------------------------------- MODULE MCTables -------------------------------
EXTENDS Tables, TLC

Object(uid, n, filled) ==
  [i \in 0 .. n - 1 |-> IF i = 0 THEN uid ELSE IF i \in DOMAIN filled THEN filled[i] ELSE Empty]

MCRows == ("Authority" :> <<"SID", "Admin1">>) @@ ("C_PIN" :> <<"pinSID", "pinAdmin1">>)
          @@ ("K_AES_256" :> <<"key">>) @@ ("Info" :> <<"info">>) @@ ("Locking" :> <<"global", "range">>)
MCCells ==
  ("SID" :> Object("SID", 12, 10 :> "pinSID")) @@ ("Admin1" :> Object("Admin1", 12, 10 :> "pinAdmin1"))
  @@ ("pinSID" :> Object("pinSID", 4, 3 :> "1234")) @@ ("pinAdmin1" :> Object("pinAdmin1", 4, 3 :> "1234"))
  @@ ("key" :> Object("key", 4, 3 :> Random)) @@ ("info" :> Object("info", 2, 1 :> "v"))
  @@ ("global" :> Object("global", 3, 2 :> "no")) @@ ("range" :> Object("range", 3, 2 :> "no"))
MCColumns == ("Authority" :> 12) @@ ("C_PIN" :> 4) @@ ("K_AES_256" :> 5) @@ ("Info" :> 2) @@ ("Locking" :> 3)
MCSingleRow == "Info" :> "info"
MCBrowsed == {"info", "range"}
Symmetric == Permutations(Clients)

\* Cells with a value and empty ones; one the description has and the object has
\* not; one that neither has.
MCInputs == {<<"info", 1, "w">>, <<"global", 2, "yes">>, <<"range", 1, "name">>, <<"key", 4, "x">>, <<"range", 3, "x">>}
===============================================================================
