--------------------------- MODULE MCSadhanaManager ----------------------------
\* Instances of SadhanaManager for TLC; the values are in the cfg files.
EXTENDS SadhanaManager
================================================================================
