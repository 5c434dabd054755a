------------------------------- MODULE MCLruCache -------------------------------
EXTENDS LruCache
=============================================================================
