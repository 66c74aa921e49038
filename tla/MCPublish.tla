------------------------------ MODULE MCPublish ------------------------------
EXTENDS Publish

\* Every patch, an untested one alone, and a tested one alone.
AllAdbMusic == {Patches, {"adb"}, {"music"}}
==============================================================================
