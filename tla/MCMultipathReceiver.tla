------------------------ MODULE MCMultipathReceiver -------------------------
(***************************************************************************)
(* MultipathReceiver for TLC: three frames of two packets over two paths.  *)
(* The key frame 1 and frame 3 are split over both paths, frame 2 goes     *)
(* wholly over path 1.                                                     *)
(***************************************************************************)
EXTENDS MultipathReceiver

MCTotal == <<2, 2, 2>>
MCLayout == <<
    << [fid |-> 1, index |-> 0], [fid |-> 2, index |-> 0],
       [fid |-> 2, index |-> 1], [fid |-> 3, index |-> 1] >>,
    << [fid |-> 1, index |-> 1], [fid |-> 3, index |-> 0] >> >>
=============================================================================
