------------------------------- MODULE MCScan -------------------------------
(* A scan, seen from both sides of the call of scan_mem.  A behaviour is one   *)
(* of                                                                          *)
(*   - the scan of a memory by the rules, for which the search of a region     *)
(*     gives the matches of every string at once (Scanner);                    *)
(*   - the search of the strings in the regions of a memory, atom by atom      *)
(*     (AcScan).                                                               *)
(* The other of the two does not start.                                        *)
EXTENDS MCScanner, MCAcScan

VARIABLE part      \* which of the two this behaviour is: "scan" or "search"

\* The search of no string, and a scanner without globals on three bytes.
SearchIdle ==
    /\ search = OneRegion(<<>>, <<>>, 9) /\ variables = <<>> /\ aho = <<>>
    /\ pc = "next" /\ region = 0 /\ hits = <<>> /\ fetched = {}
    /\ recorded = <<>>
ScanIdle ==
    /\ phase = "start"
    /\ InitWith(ScannerOf(<<>>, <<Named("r1", Shape(B(TRUE), 0, FALSE)),
                                 Named("r2", Shape(Rule1, 0, FALSE))>>),
                Direct(3, Region(0, TRUE, Nothing, Integer(1), Undefined)),
                ParamsOf(TRUE, Legacy, TRUE))

ScanInit ==
    \/ part = "scan"   /\ SearchIdle /\ MCInit
    \/ part = "search" /\ ScanIdle   /\ SearchInit

ScanNext ==
    \/ part = "scan"   /\ Next       /\ UNCHANGED <<part, search_vars>>
    \/ part = "search" /\ SearchNext /\ UNCHANGED <<part, vars>>

ScanSpec == ScanInit /\ [][ScanNext]_<<part, vars, search_vars>>
=============================================================================
