----------------------------- MODULE MCMipDrive -----------------------------
(* Instances of MipDrive for TLC: every boundary of the encodings, from both  *)
(* sides, and arguments out of range.                                       *)
EXTENDS MipDrive

BoundaryTicks == { -100, -64, -33, -32, -1, 0, 1, 32, 33, 63, 64 }
BoundaryAngles ==
    { -1636, -1635, -1276, -1275, -1274, -721, -361, -360, -359, -257, -256, -255, -6, -5, -4,
      0, 4, 5, 6, 255, 256, 257, 359, 360, 361, 720, 1274, 1275, 1276, 1634, 1635, 1636 }
BoundaryDistances == { -256, -255, -1, 0, 1, 255, 256 }
BoundarySpeeds == { -31, -30, -1, 0, 1, 30, 31 }
BoundaryTimes == { -7, 0, 6, 7, 1785, 1791, 1792, 2000 }
FewTicks == { 0 }
=============================================================================
