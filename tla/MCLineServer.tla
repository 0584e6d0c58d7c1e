---------------------------- MODULE MCLineServer -----------------------------
EXTENDS LineServer

MCClients == {"words", "long"}

(* Three lines, one of them empty and one as long as the buffer; and a     *)
(* line one longer than the buffer.                                        *)
MCMessage == [c \in MCClients |->
  IF c = "words" THEN <<"a", CR, LF, CR, LF, "b", "c", "d", CR, LF>>
                 ELSE <<"a", "b", "c", "d", CR, LF>>]
=============================================================================
